---- MODULE Spec2Model ----
(***************************************************************************)
(* PrintPath: the timelapse post-processing pass of scripts/arc.py and     *)
(* scripts/orbit.py, one action per consumed G-code line.                  *)
(*                                                                         *)
(* Lengths are integers in units of 1/10000 mm (U per mm).  A value that   *)
(* the code computes as a quotient is carried as a pair <<num, den>> and   *)
(* only rounded where the code formats it (":.3f").  Fractions of the      *)
(* settings (percentages) are carried in twentieths (step 0.05 of the      *)
(* spin boxes), the Z follow factor in hundredths.                         *)
(***************************************************************************)
EXTENDS Integers, Sequences, FiniteSets, TLC

\* ------------------------------------------------------------------ bounds
MaxLen == 3          \* lines consumed in one pass
MaxN == 2            \* largest requested snapshot count
MaxF == 2            \* largest first_snapshot_layer
MaxMeta == 2         \* metadata comment lines in one file
MaxLap == 9          \* lines consumed in the pass of one orbit
MaxZ == 4            \* lines consumed in a pass over Z moves
MaxStride == 4       \* lines consumed in a pass without a layer total
\* the user's actions on the application (SpecApp)
MaxEvents == 6

U == 10 * 1000       \* model units per millimetre
NoneVal == 0 - 1     \* Python None for a non-negative numeric setting

\* ------------------------------------------------------------- arithmetic
Abs(a) == IF a < 0 THEN -a ELSE a
Max2(a, b) == IF a >= b THEN a ELSE b
Min2(a, b) == IF a <= b THEN a ELSE b

RECURSIVE Gcd(_, _)
Gcd(a, b) == IF b = 0 THEN (IF a = 0 THEN 1 ELSE Abs(a)) ELSE Gcd(b, a % b)

\* a rational <<n, d>> with d > 0, reduced
Q(n, d) ==
  LET s == IF d < 0 THEN -1 ELSE 1
      g == Gcd(Abs(n), Abs(d))
  IN  <<(s * n) \div g, (s * d) \div g>>
QInt(n) == <<n, 1>>
QAdd(a, b) ==
  LET g == Gcd(a[2], b[2])
  IN  Q(a[1] * (b[2] \div g) + b[1] * (a[2] \div g), (a[2] \div g) * b[2])
QNeg(a) == <<-a[1], a[2]>>
QSub(a, b) == QAdd(a, QNeg(b))
QMul(a, b) ==
  LET g1 == Gcd(Abs(a[1]), b[2])
      g2 == Gcd(Abs(b[1]), a[2])
  IN  Q((a[1] \div g1) * (b[1] \div g2), (a[2] \div g2) * (b[2] \div g1))
QLt(a, b) == a[1] * b[2] < b[1] * a[2]
QLe(a, b) == a[1] * b[2] <= b[1] * a[2]
QMax(a, b) == IF QLt(a, b) THEN b ELSE a
QMin(a, b) == IF QLt(b, a) THEN b ELSE a

\* round(n/d) to the nearest integer, d > 0; a tie goes away from zero
RoundDiv(n, d) ==
  IF n >= 0 THEN (2 * n + d) \div (2 * d)
            ELSE -((2 * (-n) + d) \div (2 * d))

\* Python round(): to nearest, a tie goes to the even neighbour
RoundHalfEven(n, d) ==
  LET fl == n \div d
      r2 == 2 * (n - fl * d)
  IN  IF r2 < d THEN fl
      ELSE IF r2 > d THEN fl + 1
      ELSE IF fl % 2 = 0 THEN fl ELSE fl + 1

\* f"{v:.3f}" of a length v = q[1]/q[2] units: the nearest multiple of
\* 0.001 mm, i.e. of 10 units
Fmt3(q) == 10 * RoundDiv(q[1], 10 * q[2])

\* ------------------------------------------------------------ input lines
\* A G-code line after tokenizing: kind, the axis words of a move in the
\* order they stand on the line, and the number a comment carries.
Tok(a, v) == [axis |-> a, val |-> v]
Line(kind, toks, n) == [kind |-> kind, toks |-> toks, n |-> n]
NoLine == Line("none", <<>>, 0)

MoveLines ==
  { Line("move", <<Tok("X", 100004), Tok("Y", 50000)>>, 0),   \* G1 X10.0004 Y5
    Line("move", <<Tok("Z", 2000)>>, 0),                      \* G1 Z0.2
    Line("move", <<Tok("X", 20000), Tok("Z", 4000)>>, 0),     \* G1 X2 Z0.4
    Line("move", <<Tok("F", 3000), Tok("X", 30000)>>, 0) }    \* G1 F3000 X3
ModeLines == { Line("G90", <<>>, 0), Line("G91", <<>>, 0) }
MarkerLines == { Line("layer", <<>>, n) : n \in {0, 1, 2} }   \* ;LAYER:n
CommentLines ==
  { Line("layer_change", <<>>, 0),                            \* ;LAYER_CHANGE
    Line("zc", <<>>, 2000), Line("zc", <<>>, 4000),           \* ;Z:0.2 ;Z:0.4
    Line("height", <<>>, 2000),                               \* ;HEIGHT:0.2
    Line("other", <<>>, 0) }                                  \* M104 S200
Alphabet == MoveLines \cup ModeLines \cup MarkerLines \cup CommentLines

\* ---------------------------------------------------------------- settings
Corners == {"Front-Left", "Front-Right", "Back-Left", "Back-Right"}

BaseSettings ==
  [ script |-> "arc",
    num_snapshots |-> 1, num_orbits |-> 1, snapshots_per_loop |-> 1,
    first_snapshot_layer |-> 1, total_layers |-> NoneVal,
    min_x |-> 0, max_x |-> 20 * U, min_y |-> 0, max_y |-> 10 * U,
    min_z_print |-> 0, max_z |-> 6000,
    retract_length |-> 5000, dwell_time |-> 500, z_hop_height |-> 2000,
    z_offset_for_snapshots |-> 0, camera_distance_z_factor |-> 100,
    start_corner |-> "Front-Left", end_corner |-> "Back-Right",
    vertical_only_percentage |-> 4, horizontal_only_percentage |-> 4,
    arc_control_offset_h |-> 0, arc_control_offset_v |-> 0,
    orbit_radius_xy |-> 30, start_angle |-> 0,
    orbit_height |-> "Current Layer Z", fixed_z_height |-> 50 * U ]

\* total_layers as main.py hands it over: unknown, or a count; arc.py
\* never reads it, so one value stands for all
TotalLayerChoices(sc) ==
  IF sc = "arc" THEN {3} ELSE {NoneVal, 3}

\* settings that vary what the scheduler reads: count, floor, total
SchedulerConfigs ==
  UNION { { [BaseSettings EXCEPT !.script = sc, !.num_snapshots = n,
                                 !.snapshots_per_loop = n,
                                 !.first_snapshot_layer = f,
                                 !.total_layers = t] :
              n \in 0..MaxN, f \in 0..MaxF, t \in TotalLayerChoices(sc) } :
          sc \in {"arc", "orbit"} }

\* settings that vary what the emitter reads: retraction and dwell
EmitterConfigs ==
  { [BaseSettings EXCEPT !.script = sc, !.num_snapshots = MaxN,
                         !.snapshots_per_loop = MaxN,
                         !.first_snapshot_layer = 0,
                         !.retract_length = 0, !.dwell_time = d] :
      sc \in {"arc", "orbit"}, d \in {0, 500} }

\* the settings of the general pass
Configs == SchedulerConfigs \cup EmitterConfigs

\* N: num_snapshots of arc, num_orbits * snapshots_per_loop of orbit
total_expected_snapshots(s) ==
  IF s.script = "arc" THEN s.num_snapshots
  ELSE s.num_orbits * s.snapshots_per_loop

\* ------------------------------------------------------- output line list
\* One entry of final_gcode / new_gcode: an original line (with its index in
\* the input) or an injected line k with the numbers it prints.
Orig(line, idx) ==
  [src |-> "orig", k |-> "line", x |-> 0, y |-> 0, z |-> 0, e |-> 0,
   n |-> idx, m |-> 0, line |-> line]
Inj(k, x, y, z, e, n, m) ==
  [src |-> "inj", k |-> k, x |-> x, y |-> y, z |-> z, e |-> e,
   n |-> n, m |-> m, line |-> NoLine]
Plain(k) == Inj(k, 0, 0, 0, 0, 0, 0)
Opt(cond, seq) == IF cond THEN seq ELSE <<>>

\* variants of Splice: the block takes the place of the line; the line goes
\* out ahead of its block
SpliceDropsLine(out, block, entry) == out \o block
SpliceLineFirst(out, block, entry) == out \o <<entry>> \o block

\* an injected block goes in front of the line that triggered it, which is
\* appended after it
Splice(out, block, entry) == out \o block \o <<entry>>

\* ---------------------------------------------------- arc: path generator
corner_coords(s, name) ==
  CASE name = "Front-Left"  -> <<s.min_x, s.min_y>>
    [] name = "Front-Right" -> <<s.max_x, s.min_y>>
    [] name = "Back-Left"   -> <<s.min_x, s.max_y>>
    [] name = "Back-Right"  -> <<s.max_x, s.max_y>>

\* variant of global_progress_divisor: the count less one, unclamped
global_progress_divisor_unclamped(s) == s.num_snapshots - 1

global_progress_divisor(s) == Max2(1, s.num_snapshots - 1)

\* variant of PhaseSum: the fractions are used as given
PhaseSumUnscaled(s) == 20

\* the two phase thresholds, rescaled by their sum when they overlap
PhaseSum(s) ==
  IF s.vertical_only_percentage + s.horizontal_only_percentage > 20
  THEN s.vertical_only_percentage + s.horizontal_only_percentage ELSE 20
\* variant of z_end_vertical_phase_percentage: Phase 1 ends at half the
\* fraction
z_end_vertical_phase_halved(s) ==
  Q(s.vertical_only_percentage, 2 * PhaseSum(s))

z_end_vertical_phase_percentage(s) ==
  Q(s.vertical_only_percentage, PhaseSum(s))
z_start_horizontal_phase_percentage(s) ==
  QSub(QInt(1), Q(s.horizontal_only_percentage, PhaseSum(s)))

\* variant of Bezier: the control point weighted once instead of twice
BezierSingleWeight(t, p0, p1, p2) ==
  LET omt == QSub(QInt(1), t)
  IN  QAdd(QAdd(QMul(QMul(omt, omt), p0), QMul(QMul(omt, t), p1)),
           QMul(QMul(t, t), p2))

Bezier(t, p0, p1, p2) ==
  LET omt == QSub(QInt(1), t)
  IN  QAdd(QAdd(QMul(QMul(omt, omt), p0),
                QMul(QMul(QInt(2), QMul(omt, t)), p1)),
           QMul(QMul(t, t), p2))

\* variant of arc_t_global: the count divided by N instead of max(1, N-1)
arc_t_global_overN(s, count) == Q(count, Max2(1, s.num_snapshots))

\* t_global of the snapshot taken when `count` snapshots were taken before
arc_t_global(s, count) == Q(count, global_progress_divisor(s))

\* target_x, target_y, safe_z_for_snapshot of one arc snapshot
ArcWaypoint(s, count, cz) ==
  LET P0 == corner_coords(s, s.start_corner)
      P2 == corner_coords(s, s.end_corner)
      t == arc_t_global(s, count)
      a == z_end_vertical_phase_percentage(s)
      b == z_start_horizontal_phase_percentage(s)
      zr == s.max_z - s.min_z_print
      zAt(f) == QAdd(QInt(s.min_z_print), QMul(QInt(zr), f))
      dur == QSub(b, a)
      traw == IF QLt(QInt(0), dur)
              THEN QMul(QSub(t, a), <<dur[2], dur[1]>>) ELSE QInt(0)
      t_arc == QMax(QInt(0), QMin(QInt(1), traw))
      xz == Abs(P2[1] - P0[1]) >= Abs(P2[2] - P0[2])
      midH == IF xz THEN Q(P0[1] + P2[1], 2) ELSE Q(P0[2] + P2[2], 2)
      loH == IF xz THEN s.min_x ELSE s.min_y
      hiH == IF xz THEN s.max_x ELSE s.max_y
      P1h == QMax(QInt(loH), QMin(QInt(hiH),
                    QAdd(midH, QInt(s.arc_control_offset_h))))
      midZ == QMul(QAdd(zAt(a), zAt(b)), Q(1, 2))
      P1z == QMax(QInt(s.min_z_print), QMin(QInt(s.max_z),
                    QAdd(midZ, QInt(s.arc_control_offset_v))))
      bezH == IF xz THEN Bezier(t_arc, QInt(P0[1]), P1h, QInt(P2[1]))
                    ELSE Bezier(t_arc, QInt(P0[2]), P1h, QInt(P2[2]))
      lin(c0, c2) == QAdd(QInt(c0), QMul(t_arc, QInt(c2 - c0)))
      phase == IF QLt(t, a) THEN 1 ELSE IF QLt(b, t) THEN 3 ELSE 2
      base == IF phase = 2 THEN Bezier(t_arc, zAt(a), P1z, zAt(b)) ELSE zAt(t)
      follow == QMul(QInt(cz), Q(s.camera_distance_z_factor - 100, 100))
  IN  [ phase |-> phase, t_arc |-> t_arc, snapshot_base_z |-> base,
        x |-> CASE phase = 1 -> QInt(P0[1])
                [] phase = 3 -> QInt(P2[1])
                [] OTHER -> IF xz THEN bezH ELSE lin(P0[1], P2[1]),
        y |-> CASE phase = 1 -> QInt(P0[2])
                [] phase = 3 -> QInt(P2[2])
                [] OTHER -> IF xz THEN lin(P0[2], P2[2]) ELSE bezH,
        z |-> QAdd(QAdd(base, QInt(s.z_hop_height + s.z_offset_for_snapshots)),
                   follow) ]

\* variant of ArcBlock: the unretraction lines go out whatever retract_length
ArcBlockAlwaysUnretract(s, count, layer, wp, ret) ==
  <<Inj("header", 0, 0, 0, 0, layer, count + 1), Plain("G90"),
    Inj("travel", Fmt3(wp.x), Fmt3(wp.y), Fmt3(wp.z), 0, 0, 0)>>
  \o Opt(s.dwell_time > 0, <<Inj("G4", 0, 0, 0, 0, s.dwell_time, 0)>>)
  \o <<Plain("TAKE"),
       Inj("return", Fmt3(QInt(ret[1])), Fmt3(QInt(ret[2])),
           Fmt3(QInt(ret[3])), 0, 0, 0),
       Plain("G91"),
       Inj("unretract", 0, 0, 0, Fmt3(QInt(s.retract_length)), 0, 0),
       Plain("G90"),
       Inj("footer", 0, 0, 0, 0, 0, 0)>>

\* variant of ArcBlock: the sentinel goes out with the dwell only
ArcBlockTakeWithDwell(s, count, layer, wp, ret) ==
  <<Inj("header", 0, 0, 0, 0, layer, count + 1), Plain("G90"),
    Inj("travel", Fmt3(wp.x), Fmt3(wp.y), Fmt3(wp.z), 0, 0, 0)>>
  \o Opt(s.dwell_time > 0,
         <<Inj("G4", 0, 0, 0, 0, s.dwell_time, 0), Plain("TAKE")>>)
  \o <<Inj("return", Fmt3(QInt(ret[1])), Fmt3(QInt(ret[2])),
           Fmt3(QInt(ret[3])), 0, 0, 0)>>
  \o Opt(s.retract_length > 0,
         <<Plain("G91"),
           Inj("unretract", 0, 0, 0, Fmt3(QInt(s.retract_length)), 0, 0),
           Plain("G90")>>)
  \o <<Inj("footer", 0, 0, 0, 0, 0, 0)>>

\* the lines of one arc snapshot block
ArcBlock(s, count, layer, wp, ret) ==
  <<Inj("header", 0, 0, 0, 0, layer, count + 1), Plain("G90"),
    Inj("travel", Fmt3(wp.x), Fmt3(wp.y), Fmt3(wp.z), 0, 0, 0)>>
  \o Opt(s.dwell_time > 0, <<Inj("G4", 0, 0, 0, 0, s.dwell_time, 0)>>)
  \o <<Plain("TAKE"),
       Inj("return", Fmt3(QInt(ret[1])), Fmt3(QInt(ret[2])),
           Fmt3(QInt(ret[3])), 0, 0, 0)>>
  \o Opt(s.retract_length > 0,
         <<Plain("G91"),
           Inj("unretract", 0, 0, 0, Fmt3(QInt(s.retract_length)), 0, 0),
           Plain("G90")>>)
  \o <<Inj("footer", 0, 0, 0, 0, 0, 0)>>

\* ------------------------------------------------------------------- state
VARIABLES
  settings,        \* the settings dict handed to run()
  gcode_lines,     \* the input lines consumed so far
  final_gcode,     \* the output line list (new_gcode in orbit.py)
  snapshot_points_list,
  current_x, current_y, current_z,
  is_relative,                         \* arc
  original_pos,                        \* arc: original_pos_x/_y/_z
  current_logical_layer,               \* arc
  current_z_for_distinct_layer_check,  \* arc
  layers_with_inserted_snapshots,      \* arc
  layer_count,                         \* orbit
  awaiting_z_for_layer_inference,      \* orbit
  snapshots_taken_count,
  pc,              \* where the program stands: "parse", "parsed", "loop",
                   \* or "raised" when run() ended in an exception
  info,            \* the dict _parse_gcode_info_main_app builds
  meta_lines,      \* the metadata comment lines of the file read so far
  events,          \* history: one record per layer event
  blocks,          \* history: one record per emitted block
  sys_stdout,      \* sys.stdout: "console", a thread's redirect, or None
  processor_thread,        \* the thread at work: its filepath, mode,
                           \* settings and old_stdout
  signals,                 \* what that thread has emitted so far
  original_gcode_filepath,
  processed_gcode_content,
  output_filepath,
  go_button,       \* its text ("Go!" or "Open") and whether it is enabled
  save_action,     \* whether Save Processed G-code is enabled
  script_combo,    \* the script selected
  current_settings,
  busy,            \* "", "parsing" or "processing": the progress bar is
                   \* shown, the menus and the settings are disabled
  disk,            \* the processed files written, by directory entry
  user_events      \* history: how many times the user has acted

runVars == <<settings, gcode_lines, final_gcode, snapshot_points_list,
             current_x, current_y, current_z, is_relative, original_pos,
             current_logical_layer, current_z_for_distinct_layer_check,
             layers_with_inserted_snapshots, layer_count,
             awaiting_z_for_layer_inference, snapshots_taken_count,
             pc, info, meta_lines, events, blocks>>

appVars == <<sys_stdout, processor_thread, signals,
             original_gcode_filepath, processed_gcode_content,
             output_filepath, go_button, save_action, script_combo,
             current_settings, busy, disk, user_events>>

vars == <<runVars, appVars>>

arcOnly == <<is_relative, original_pos, current_logical_layer,
             current_z_for_distinct_layer_check,
             layers_with_inserted_snapshots>>
orbitOnly == <<layer_count, awaiting_z_for_layer_inference>>
metaOnly == <<pc, info, meta_lines>>

\* what the history keeps of a block: the layer it names, the count of
\* snapshots taken before it, its progress fraction t, the tracked position
\* before and after the triggering line, the return target, the index of
\* the triggering line and the waypoint
EventRec(layer, trig, accepted) ==
  [layer |-> layer, trig |-> trig, accepted |-> accepted]
BlockRec(layer, k, t, pre, cur, ret, trig, wp) ==
  [layer |-> layer, k |-> k, t |-> t, pre |-> pre, cur |-> cur,
   ret |-> ret, trig |-> trig, wp |-> wp]

\* ------------------------------------------------------- arc: the tracker
\* gcode_move_pattern: after G0/G1 an optional X word, then an optional Y
\* word, then an optional Z word, each only where it stands next in line
gcode_move_pattern(line) ==
  LET tk == line.toks
      has(i, a) == i <= Len(tk) /\ tk[i].axis = a
      ix == 1
      iy == IF has(ix, "X") THEN ix + 1 ELSE ix
      iz == IF has(iy, "Y") THEN iy + 1 ELSE iy
  IN  [ matched |-> line.kind = "move",
        hasX |-> has(ix, "X"), x |-> IF has(ix, "X") THEN tk[ix].val ELSE 0,
        hasY |-> has(iy, "Y"), y |-> IF has(iy, "Y") THEN tk[iy].val ELSE 0,
        hasZ |-> has(iz, "Z"), z |-> IF has(iz, "Z") THEN tk[iz].val ELSE 0 ]

\* the position after the line, from position p under the mode rel
ArcTrack(line, p, rel) ==
  LET mm == gcode_move_pattern(line)
      upd(has, old, v) == IF ~has THEN old ELSE IF rel THEN old + v ELSE v
  IN  IF ~mm.matched THEN p
      ELSE <<upd(mm.hasX, p[1], mm.x), upd(mm.hasY, p[2], mm.y),
             upd(mm.hasZ, p[3], mm.z)>>

ArcMode(line, rel) ==
  IF line.kind = "G90" THEN FALSE ELSE IF line.kind = "G91" THEN TRUE ELSE rel

\* variants of ArcLayerDetect: a marker equal to the counter counts as new;
\* the fallback tests the size of the Z change but not its direction
ArcLayerDetectGe(line, layer, base, z) ==
  IF line.kind = "layer"
  THEN IF line.n >= layer
       THEN [layer |-> line.n, base |-> base, isNew |-> TRUE]
       ELSE [layer |-> layer, base |-> base, isNew |-> FALSE]
  ELSE IF Abs(z - base) > 500 /\ z > base
       THEN [layer |-> layer + 1, base |-> z, isNew |-> TRUE]
       ELSE [layer |-> layer, base |-> base, isNew |-> FALSE]
ArcLayerDetectAbsOnly(line, layer, base, z) ==
  IF line.kind = "layer"
  THEN IF line.n > layer
       THEN [layer |-> line.n, base |-> base, isNew |-> TRUE]
       ELSE [layer |-> layer, base |-> base, isNew |-> FALSE]
  ELSE IF Abs(z - base) > 500
       THEN [layer |-> layer + 1, base |-> z, isNew |-> TRUE]
       ELSE [layer |-> layer, base |-> base, isNew |-> FALSE]

\* Layer change detection of arc.py: [layer, base, isNew] after the line
ArcLayerDetect(line, layer, base, z) ==
  IF line.kind = "layer"
  THEN IF line.n > layer
       THEN [layer |-> line.n, base |-> base, isNew |-> TRUE]
       ELSE [layer |-> layer, base |-> base, isNew |-> FALSE]
  ELSE IF Abs(z - base) > 500 /\ z > base
       THEN [layer |-> layer + 1, base |-> z, isNew |-> TRUE]
       ELSE [layer |-> layer, base |-> base, isNew |-> FALSE]

\* variants of ArcShouldInsert: without the cap on the count; without the
\* first_snapshot_layer floor
ArcShouldInsertNoCap(s, isNew, layer, inserted, count) ==
  isNew /\ layer >= s.first_snapshot_layer /\ layer \notin inserted
ArcShouldInsertNoFloor(s, isNew, layer, inserted, count) ==
  isNew /\ layer \notin inserted /\ count < s.num_snapshots

\* Snapshot insertion condition of arc.py
ArcShouldInsert(s, isNew, layer, inserted, count) ==
  /\ isNew
  /\ layer >= s.first_snapshot_layer
  /\ layer \notin inserted
  /\ count < s.num_snapshots

\* one iteration of the loop of arc.run
ArcConsume(line) ==
  /\ pc = "loop"
  /\ settings.script = "arc"
  /\ LET pre == <<current_x, current_y, current_z>>
         cur == ArcTrack(line, pre, is_relative)
         orig == IF gcode_move_pattern(line).matched THEN pre ELSE original_pos
         det == ArcLayerDetect(line, current_logical_layer,
                               current_z_for_distinct_layer_check, cur[3])
         ins == ArcShouldInsert(settings, det.isNew, det.layer,
                                layers_with_inserted_snapshots,
                                snapshots_taken_count)
         wp == ArcWaypoint(settings, snapshots_taken_count, cur[3])
         idx == Len(gcode_lines) + 1
     IN  /\ current_x' = cur[1]
         /\ current_y' = cur[2]
         /\ current_z' = cur[3]
         /\ original_pos' = orig
         /\ is_relative' = ArcMode(line, is_relative)
         /\ current_logical_layer' = det.layer
         /\ current_z_for_distinct_layer_check' = det.base
         /\ gcode_lines' = Append(gcode_lines, line)
         /\ events' = IF det.isNew
                       THEN Append(events, EventRec(det.layer, idx, ins))
                       ELSE events
         /\ IF ins
            THEN /\ final_gcode' =
                      Splice(final_gcode,
                             ArcBlock(settings, snapshots_taken_count,
                                      det.layer, wp, orig),
                             Orig(line, idx))
                 /\ snapshot_points_list' =
                      Append(snapshot_points_list, <<wp.x, wp.y, wp.z>>)
                 /\ snapshots_taken_count' = snapshots_taken_count + 1
                 /\ layers_with_inserted_snapshots' =
                      layers_with_inserted_snapshots \cup {det.layer}
                 /\ blocks' = Append(blocks,
                      BlockRec(det.layer, snapshots_taken_count,
                               arc_t_global(settings, snapshots_taken_count),
                               pre, cur, orig, idx, wp))
            ELSE /\ final_gcode' = Append(final_gcode, Orig(line, idx))
                 /\ UNCHANGED <<snapshot_points_list, snapshots_taken_count,
                                layers_with_inserted_snapshots, blocks>>
  /\ UNCHANGED <<settings, orbitOnly, metaOnly, appVars>>

\* ------------------------------------------ main.py: the toolpath parser
\* the layer counter of _parse_gcode_toolpath after one line: G90/G91 lines
\* are skipped before the marker test, a marker advances the counter only
\* when its number is higher
toolpath_layer_step(line, current_layer) ==
  IF line.kind = "layer" /\ line.n > current_layer THEN line.n
  ELSE current_layer

\* the counter after a list of lines; it starts at -1
RECURSIVE toolpath_current_layer(_)
toolpath_current_layer(lines) ==
  IF lines = <<>> THEN 0 - 1
  ELSE toolpath_layer_step(lines[Len(lines)],
         toolpath_current_layer(SubSeq(lines, 1, Len(lines) - 1)))

\* position and mode of _parse_gcode_toolpath after one line: the move
\* pattern is that of arc.py, and a G90/G91 line ends the iteration
toolpath_track(line, st) ==
  LET mm == gcode_move_pattern(line)
      upd(has, old, v) == IF ~has THEN old ELSE IF st.rel THEN old + v ELSE v
  IN  IF line.kind = "G90" THEN [pos |-> st.pos, rel |-> FALSE]
      ELSE IF line.kind = "G91" THEN [pos |-> st.pos, rel |-> TRUE]
      ELSE IF line.kind = "move"
      THEN [pos |-> <<upd(mm.hasX, st.pos[1], mm.x),
                      upd(mm.hasY, st.pos[2], mm.y),
                      upd(mm.hasZ, st.pos[3], mm.z)>>,
            rel |-> st.rel]
      ELSE st

\* position and mode after a list of lines; they start at the origin,
\* absolute
RECURSIVE toolpath_state(_)
toolpath_state(lines) ==
  IF lines = <<>> THEN [pos |-> <<0, 0, 0>>, rel |-> FALSE]
  ELSE toolpath_track(lines[Len(lines)],
                      toolpath_state(SubSeq(lines, 1, Len(lines) - 1)))

\* ------------------------------------- gcode_viewer.py: snapshot points
\* position and mode of parse_and_set_processed_snapshot_points after one
\* line: the mode is updated first, then the move pattern of arc.py (without
\* the E word) is applied
viewer_track(line, st) ==
  LET rel == IF line.kind = "G90" THEN FALSE
             ELSE IF line.kind = "G91" THEN TRUE ELSE st.rel
      mm == gcode_move_pattern(line)
      upd(has, old, v) == IF ~has THEN old ELSE IF rel THEN old + v ELSE v
  IN  IF line.kind = "move"
      THEN [pos |-> <<upd(mm.hasX, st.pos[1], mm.x),
                      upd(mm.hasY, st.pos[2], mm.y),
                      upd(mm.hasZ, st.pos[3], mm.z)>>,
            rel |-> rel]
      ELSE [pos |-> st.pos, rel |-> rel]

\* --------------------------------------------------- orbit: set-up of run
\* average_layer_height as a rational number of units
average_layer_height(s) ==
  IF s.total_layers # NoneVal /\ s.total_layers > 0
     /\ s.max_z # NoneVal /\ s.max_z > 0
  THEN Q(s.max_z, Max2(1, s.total_layers))
  ELSE QInt(2000)

\* variant of layer_interval_per_snapshot: every layer when the total is
\* unknown
layer_interval_every_layer(s) ==
  LET n == total_expected_snapshots(s)
      avail == Max2(1, s.total_layers - s.first_snapshot_layer + 1)
  IN  IF n = 0 THEN 0 - 1
      ELSE IF s.total_layers # NoneVal /\ s.total_layers > 0 /\ n > 0
           THEN Max2(1, RoundHalfEven(avail, n))
           ELSE 1

layer_interval_per_snapshot(s) ==
  LET n == total_expected_snapshots(s)
      avail == Max2(1, s.total_layers - s.first_snapshot_layer + 1)
  IN  IF n = 0 THEN 0 - 1
      ELSE IF s.total_layers # NoneVal /\ s.total_layers > 0 /\ n > 0
           THEN Max2(1, RoundHalfEven(avail, n))
           ELSE 50

model_center(s) ==
  IF s.min_x # NoneVal /\ s.max_x # NoneVal /\ s.min_y # NoneVal
     /\ s.max_y # NoneVal
  THEN <<Q(s.min_x + s.max_x, 2), Q(s.min_y + s.max_y, 2)>>
  ELSE <<QInt(110 * U), QInt(110 * U)>>

corkscrew_radius(s) == Max2(s.orbit_radius_xy, 10)

calculated_max_snapshot_z(s) ==
  Max2(IF s.max_z # NoneVal /\ s.max_z > 0 THEN s.max_z + 5 * U ELSE 250 * U,
       s.z_hop_height + U)

\* the 20 comment and mode lines run() writes before the first input line
OrbitPreamble ==
  [i \in 1..20 |-> IF i = 18 THEN Plain("G90")
                   ELSE IF i = 19 THEN Plain("M82")
                   ELSE Inj("preamble", 0, 0, 0, 0, i, 0)]

\* ------------------------------------------------- orbit: path generator
\* an angle of a[1]/a[2] degrees brought into [0, 360)
QMod360(a) == Q(a[1] % (360 * a[2]), a[2])

\* 10^6 * cos of an angle of the first quadrant: the multiples of 30, of 45
\* and of 90/7 degrees, which are the angles the passes reach
CosQuadrantE6(r) ==
  CASE r = <<0, 1>> -> 1000000
    [] r = <<90, 7>> -> 974928
    [] r = <<180, 7>> -> 900969
    [] r = <<30, 1>> -> 866025
    [] r = <<270, 7>> -> 781831
    [] r = <<45, 1>> -> 707107
    [] r = <<360, 7>> -> 623490
    [] r = <<60, 1>> -> 500000
    [] r = <<450, 7>> -> 433884
    [] r = <<540, 7>> -> 222521
    [] r = <<90, 1>> -> 0

\* 10^6 * math.cos(math.radians(a)) for a rational number a of degrees
CosE6(a) ==
  LET r == QMod360(a)
      h == IF QLt(QInt(180), r) THEN QSub(QInt(360), r) ELSE r
  IN  IF QLt(QInt(90), h) THEN 0 - CosQuadrantE6(QSub(QInt(180), h))
      ELSE CosQuadrantE6(h)
SinE6(a) == CosE6(QAdd(a, QInt(270)))

\* progress of the snapshot taken when `count` snapshots were taken before
orbit_progress(s, count) ==
  LET n == total_expected_snapshots(s)
  IN  IF n > 1 THEN QMax(QInt(0), QMin(QInt(1), Q(count, Max2(1, n - 1))))
      ELSE QInt(0)

\* angle_deg, a rational number of degrees
angle_deg(s, count) ==
  IF total_expected_snapshots(s) > 1
  THEN QAdd(QInt(s.start_angle),
            QMul(orbit_progress(s, count), QInt(s.num_orbits * 360)))
  ELSE QInt(s.start_angle)

\* target_x, target_y, safe_z_for_snapshot of one orbit snapshot
OrbitWaypoint(s, count, oz) ==
  LET ang == angle_deg(s, count)
      c == model_center(s)
      target == IF s.orbit_height = "Fixed Z"
                THEN s.fixed_z_height + s.z_offset_for_snapshots
                ELSE oz + s.z_offset_for_snapshots
      safe == Min2(Max2(target, s.z_hop_height), calculated_max_snapshot_z(s))
      safe2 == IF s.orbit_height = "Current Layer Z"
                  /\ safe < s.z_hop_height + 5000
               THEN s.z_hop_height + 5000 ELSE safe
  IN  [ angle |-> ang,
        x |-> QAdd(c[1], Q(corkscrew_radius(s) * CosE6(ang), 100)),
        y |-> QAdd(c[2], Q(corkscrew_radius(s) * SinE6(ang), 100)),
        z |-> QInt(safe2) ]

\* the lines of one orbit snapshot block
OrbitBlock(s, layer, wp, ret) ==
  <<Inj("header", 0, 0, 0, 0, layer, 0), Plain("G90")>>
  \o Opt(s.retract_length > 0,
         <<Plain("G91"),
           Inj("retract", 0, 0, 0, 0 - Fmt3(QInt(s.retract_length)), 0, 0)>>)
  \o <<Inj("zhop", 0, 0, Fmt3(QInt(ret[3] + s.z_hop_height)), 0, 0, 0),
       Plain("G90"),
       Inj("travel", Fmt3(wp.x), Fmt3(wp.y), Fmt3(wp.z), 0, 0, 0)>>
  \o Opt(s.dwell_time > 0, <<Inj("G4", 0, 0, 0, 0, s.dwell_time, 0)>>)
  \o <<Plain("TAKE"),
       Inj("return", Fmt3(QInt(ret[1])), Fmt3(QInt(ret[2])),
           Fmt3(QInt(ret[3])), 0, 0, 0)>>
  \o Opt(s.retract_length > 0,
         <<Plain("G91"),
           Inj("unretract", 0, 0, 0, Fmt3(QInt(s.retract_length)), 0, 0),
           Plain("G90")>>)
  \o <<Inj("footer", 0, 0, 0, 0, layer, 0)>>

\* ----------------------------------------------------- orbit: the tracker
\* coord_pattern.finditer: every X, Y, Z word of a G0/G1 line sets its axis
RECURSIVE OrbitApply(_, _)
OrbitApply(tk, p) ==
  IF tk = <<>> THEN p
  ELSE LET h == Head(tk)
           q == CASE h.axis = "X" -> <<h.val, p[2], p[3]>>
                  [] h.axis = "Y" -> <<p[1], h.val, p[3]>>
                  [] h.axis = "Z" -> <<p[1], p[2], h.val>>
                  [] OTHER -> p
       IN  OrbitApply(Tail(tk), q)
OrbitTrack(line, p) ==
  IF line.kind = "move" THEN OrbitApply(line.toks, p) ELSE p

\* Primary layer detection and Z-comment inference of orbit.py:
\* [layer, awaiting, explicit] after the line
OrbitLayerDetect(s, line, layer, awaiting) ==
  LET hit == line.kind = "layer" /\ line.n > layer
      l1 == IF hit THEN line.n ELSE layer
      explicit == hit \/ line.kind = "layer_change"
      aw1 == IF hit THEN FALSE
             ELSE IF line.kind = "layer_change" THEN TRUE ELSE awaiting
      avg == average_layer_height(s)
      \* round(z / average_layer_height + 1e-6): the epsilon sends a tie up
      inferred == RoundDiv(line.n * avg[2], avg[1])
      inf == aw1 /\ line.kind = "zc" /\ inferred > l1
  IN  [ layer |-> IF inf THEN inferred ELSE l1,
        awaiting |-> IF inf THEN FALSE ELSE aw1,
        explicit |-> explicit ]

\* whether the line makes run() evaluate the snapshot conditions
OrbitEvaluates(line, det) ==
  \/ det.explicit
  \/ /\ ~det.awaiting
     /\ det.layer > 0
     /\ line.kind \in {"zc", "height"}

\* should_insert_snapshot
OrbitShouldInsert(s, layer, count) ==
  LET iv == layer_interval_per_snapshot(s)
      after == layer >= s.first_snapshot_layer
      onInterval == after /\ iv > 0
                    /\ (layer - s.first_snapshot_layer) % iv = 0
      within == total_expected_snapshots(s) > 0
                /\ count < total_expected_snapshots(s)
  IN  after /\ onInterval /\ within

\* one iteration of the loop of orbit.run
OrbitConsume(line) ==
  /\ pc = "loop"
  /\ settings.script = "orbit"
  /\ LET pre == <<current_x, current_y, current_z>>
         cur == OrbitTrack(line, pre)
         det == OrbitLayerDetect(settings, line, layer_count,
                                 awaiting_z_for_layer_inference)
         ins == OrbitEvaluates(line, det)
                /\ OrbitShouldInsert(settings, det.layer,
                                     snapshots_taken_count)
         wp == OrbitWaypoint(settings, snapshots_taken_count, cur[3])
         idx == Len(gcode_lines) + 1
     IN  /\ current_x' = cur[1]
         /\ current_y' = cur[2]
         /\ current_z' = cur[3]
         /\ layer_count' = det.layer
         /\ awaiting_z_for_layer_inference' = det.awaiting
         /\ gcode_lines' = Append(gcode_lines, line)
         /\ events' = IF OrbitEvaluates(line, det)
                       THEN Append(events, EventRec(det.layer, idx, ins))
                       ELSE events
         /\ IF ins
            THEN /\ final_gcode' =
                      Splice(final_gcode,
                             OrbitBlock(settings, det.layer, wp, cur),
                             Orig(line, idx))
                 /\ snapshot_points_list' =
                      Append(snapshot_points_list, <<wp.x, wp.y, wp.z>>)
                 /\ snapshots_taken_count' = snapshots_taken_count + 1
                 /\ blocks' = Append(blocks,
                      BlockRec(det.layer, snapshots_taken_count,
                               orbit_progress(settings, snapshots_taken_count),
                               pre, cur, cur, idx, wp))
            ELSE /\ final_gcode' = Append(final_gcode, Orig(line, idx))
                 /\ UNCHANGED <<snapshot_points_list, snapshots_taken_count,
                                blocks>>
  /\ UNCHANGED <<settings, arcOnly, metaOnly, appVars>>

\* ------------------------------------------- main.py: metadata extractor
MIN_BED_DIMENSION == 50 * U
DEFAULT_BED_X == 220 * U
DEFAULT_BED_Y == 220 * U

\* float() reads the word nan as well as a number; NaN stands for that
\* value, and every comparison with it is false
NaN == 0 - 2
FloatLt(a, b) == a # NaN /\ b # NaN /\ a < b
FloatGe(a, b) == a # NaN /\ b # NaN /\ a >= b

\* A metadata comment after tokenizing: its pattern family, the integer it
\* carries, its coordinates, its Z value and its word
Meta(kind, n, pts, z, w) == [kind |-> kind, n |-> n, pts |-> pts, z |-> z, w |-> w]

MetaLines ==
  { Meta("flavor", 0, <<>>, 0, "klipper"),     \* ; gcode_flavor = klipper
    Meta("flavor", 0, <<>>, 0, "reprap"),      \* ; gcode_flavor = reprap
    Meta("total_phrase", 3, <<>>, 0, ""),      \* ; total layer number: 3
    Meta("max_layer", 2, <<>>, 0, ""),         \* ;MAX_LAYER:2
    \* ... POLYGON=[[0,0],[20,0],[20,10],[0,10]]
    Meta("polygon", 0, <<0, 0, 20 * U, 0, 20 * U, 10 * U, 0, 10 * U>>, 0, ""),
    \* ; bounding_box: X[0.0:20.0] Y[0.0:10.0]
    Meta("range", 0, <<0, 20 * U, 0, 10 * U>>, NoneVal, ""),
    \* ; bounding_box: X[0.0:20.0] Y[0.0:10.0] Z[0.0:0.6]
    Meta("range", 0, <<0, 20 * U, 0, 10 * U>>, 6000, ""),
    Meta("max_z", 0, <<>>, 8000, ""),          \* ; max_z = 0.8
    Meta("bed_size", 0, <<300 * U, 300 * U>>, 0, ""),       \* ; bed_size = 300x300
    Meta("bed_size", 0, <<40 * U, 300 * U>>, 0, ""),        \* ; bed_size = 40x300
    Meta("bed_size", 0, <<NaN, 300 * U>>, 0, ""),           \* ; bed_size = nanx300
    \* ; bed_shape = 0x0,300x0,300x300,0x300 (float() rejects the second word)
    Meta("bed_shape", 0, <<>>, 0, ""),
    \* ; printable_area = 0x0,250x0,250x210,0x210
    Meta("printable_area", 0, <<250 * U, 210 * U>>, 0, ""),
    \* ; min_x = 0 max_x = 20 min_y = 0 max_y = 10
    Meta("minmax", 0, <<0, 20 * U, 0, 10 * U>>, 0, "") }

\* the info dict before the first line; "" and <<>> stand for None
NoInfo ==
  [ gcode_flavor |-> "", total_layers |-> NoneVal,
    min_x |-> NoneVal, max_x |-> NoneVal, min_y |-> NoneVal,
    max_y |-> NoneVal, max_z |-> NoneVal, bed_dimensions |-> <<>> ]

SetMin(S) == CHOOSE a \in S : \A b \in S : a <= b
SetMax(S) == CHOOSE a \in S : \A b \in S : a >= b

\* a bed candidate either of whose sides is below the floor becomes the
\* default bed
ValidatedBed(pts) ==
  IF FloatLt(pts[1], MIN_BED_DIMENSION) \/ FloatLt(pts[2], MIN_BED_DIMENSION)
  THEN <<DEFAULT_BED_X, DEFAULT_BED_Y>> ELSE pts

\* one iteration of the loop of _parse_gcode_info_main_app
parse_info_line(i, m) ==
  LET flavor == IF i.gcode_flavor = "" /\ m.kind = "flavor"
                   /\ m.w \in {"klipper", "marlin"}
                THEN m.w ELSE i.gcode_flavor
      total == IF i.total_layers # NoneVal THEN i.total_layers
               ELSE IF m.kind \in {"total_phrase", "layers", "total_layers"}
                    THEN m.n
               ELSE IF m.kind = "max_layer" THEN m.n + 1
               ELSE NoneVal
      box == i.min_x = NoneVal /\ m.kind \in {"polygon", "range"}
      xs == IF m.kind = "polygon"
            THEN {m.pts[1], m.pts[3], m.pts[5], m.pts[7]}
            ELSE {m.pts[1], m.pts[2]}
      ys == IF m.kind = "polygon"
            THEN {m.pts[2], m.pts[4], m.pts[6], m.pts[8]}
            ELSE {m.pts[3], m.pts[4]}
      zr == IF box /\ m.kind = "range" /\ m.z # NoneVal THEN m.z ELSE i.max_z
      mz == IF zr = NoneVal /\ m.kind = "max_z" THEN m.z ELSE zr
      bed == IF i.bed_dimensions = <<>>
                /\ m.kind \in {"bed_size", "printable_area"}
             THEN ValidatedBed(m.pts) ELSE i.bed_dimensions
  IN  [ gcode_flavor |-> flavor, total_layers |-> total,
        min_x |-> IF box THEN SetMin(xs) ELSE i.min_x,
        max_x |-> IF box THEN SetMax(xs) ELSE i.max_x,
        min_y |-> IF box THEN SetMin(ys) ELSE i.min_y,
        max_y |-> IF box THEN SetMax(ys) ELSE i.max_y,
        max_z |-> mz, bed_dimensions |-> bed ]

\* Early Exit Optimization: every field found and the bed valid
EarlyExit(i) ==
  /\ i.total_layers # NoneVal /\ i.min_x # NoneVal /\ i.max_x # NoneVal
  /\ i.min_y # NoneVal /\ i.max_y # NoneVal /\ i.max_z # NoneVal
  /\ i.gcode_flavor # ""
  /\ i.bed_dimensions # <<>>
  /\ FloatGe(i.bed_dimensions[1], MIN_BED_DIMENSION)
  /\ FloatGe(i.bed_dimensions[2], MIN_BED_DIMENSION)

\* Final fallback for bed dimensions
FinalFallback(i) ==
  IF \/ i.bed_dimensions = <<>>
     \/ FloatLt(i.bed_dimensions[1], MIN_BED_DIMENSION)
     \/ FloatLt(i.bed_dimensions[2], MIN_BED_DIMENSION)
  THEN [i EXCEPT !.bed_dimensions = <<DEFAULT_BED_X, DEFAULT_BED_Y>>]
  ELSE i

\* ---------------------------------------- orbit.py: the local extractor
\* one iteration of the loop of parse_gcode_info: st carries the info
\* dict and the flags total_layers_found, bbox_found and stopped (break)
parse_gcode_info_line(st, m) ==
  LET i == st.info
      tl == ~st.total_layers_found
            /\ m.kind \in {"total_phrase", "layers", "total_layers",
                           "max_layer"}
      box == ~st.bbox_found /\ m.kind \in {"polygon", "range"}
      xs == IF m.kind = "polygon"
            THEN {m.pts[1], m.pts[3], m.pts[5], m.pts[7]}
            ELSE {m.pts[1], m.pts[2]}
      ys == IF m.kind = "polygon"
            THEN {m.pts[2], m.pts[4], m.pts[6], m.pts[8]}
            ELSE {m.pts[3], m.pts[4]}
      mz == IF box /\ m.kind = "range" /\ m.z # NoneVal THEN m.z
            ELSE IF ~st.bbox_found /\ ~box /\ m.kind = "max_z"
                    /\ i.max_z = NoneVal THEN m.z
            ELSE i.max_z
      \* the individual min_x= max_x= min_y= max_y= words of a line
      ind(old, k) == IF ~st.bbox_found /\ ~box /\ m.kind = "minmax"
                        /\ old = NoneVal
                     THEN m.pts[k] ELSE old
      i2 == [ total_layers |-> IF ~tl THEN i.total_layers
                               ELSE IF m.kind = "max_layer" THEN m.n + 1
                               ELSE m.n,
              min_x |-> IF box THEN SetMin(xs) ELSE ind(i.min_x, 1),
              max_x |-> IF box THEN SetMax(xs) ELSE ind(i.max_x, 2),
              min_y |-> IF box THEN SetMin(ys) ELSE ind(i.min_y, 3),
              max_y |-> IF box THEN SetMax(ys) ELSE ind(i.max_y, 4),
              max_z |-> mz ]
      tf == st.total_layers_found \/ tl
      bf == \/ st.bbox_found
            \/ box
            \/ NoneVal \notin {i2.min_x, i2.max_x, i2.min_y, i2.max_y}
  IN  IF st.stopped THEN st
      ELSE [ info |-> i2, total_layers_found |-> tf, bbox_found |-> bf,
             stopped |-> tf /\ bf ]

RECURSIVE parse_gcode_info_from(_, _)
parse_gcode_info_from(st, lines) ==
  IF lines = <<>> THEN st.info
  ELSE parse_gcode_info_from(parse_gcode_info_line(st, Head(lines)),
                             Tail(lines))

parse_gcode_info(lines) ==
  parse_gcode_info_from(
    [ info |-> [ total_layers |-> NoneVal, min_x |-> NoneVal,
                 max_x |-> NoneVal, min_y |-> NoneVal, max_y |-> NoneVal,
                 max_z |-> NoneVal ],
      total_layers_found |-> FALSE, bbox_found |-> FALSE,
      stopped |-> FALSE ],
    lines)

\* ------------------------------------------- from the info dict to run()
\* combined_settings.update(gcode_info_full_data): the info keys replace
\* the settings of the same name, a None included
combined_settings(s, i) ==
  [s EXCEPT !.total_layers = i.total_layers, !.min_x = i.min_x,
            !.max_x = i.max_x, !.min_y = i.min_y, !.max_y = i.max_y,
            !.max_z = i.max_z]

\* orbit.run: a value missing from the settings is taken from the local
\* parse of the file
OrbitModelInfo(s, lines) ==
  LET loc == parse_gcode_info(lines)
      fill(v, l) == IF v = NoneVal THEN l ELSE v
  IN  IF NoneVal \in {s.total_layers, s.min_x, s.max_x, s.min_y, s.max_y,
                      s.max_z}
      THEN [s EXCEPT !.total_layers = fill(s.total_layers, loc.total_layers),
                     !.min_x = fill(s.min_x, loc.min_x),
                     !.max_x = fill(s.max_x, loc.max_x),
                     !.min_y = fill(s.min_y, loc.min_y),
                     !.max_y = fill(s.max_y, loc.max_y),
                     !.max_z = fill(s.max_z, loc.max_z)]
      ELSE s

\* whether the set-up of run() raises TypeError on a None: arc.py adds the
\* box and Z bounds, orbit.py formats them into its preamble
SetupRaises(s) ==
  NoneVal \in {s.min_x, s.max_x, s.min_y, s.max_y, s.max_z}

\* the step of the extractor on one metadata line; the early exit ends it
ParseLine(m) ==
  /\ pc = "parse"
  /\ Len(meta_lines) < MaxMeta
  /\ LET i == parse_info_line(info, m)
     IN  /\ info' = IF EarlyExit(i) THEN FinalFallback(i) ELSE i
         /\ pc' = IF EarlyExit(i) THEN "parsed" ELSE "parse"
  /\ meta_lines' = Append(meta_lines, m)
  /\ UNCHANGED <<settings, gcode_lines, final_gcode, snapshot_points_list,
                 current_x, current_y, current_z, arcOnly, orbitOnly,
                 snapshots_taken_count, events, blocks, appVars>>

\* the end of the file: the final fallback
ParseEnd ==
  /\ pc = "parse"
  /\ info' = FinalFallback(info)
  /\ pc' = "parsed"
  /\ UNCHANGED <<settings, gcode_lines, final_gcode, snapshot_points_list,
                 current_x, current_y, current_z, arcOnly, orbitOnly,
                 snapshots_taken_count, meta_lines, events, blocks,
                 appVars>>

\* _process_current_gcode and the set-up of run() up to its loop; from here
\* on settings holds the values run() works with
ProcessStart ==
  /\ pc = "parsed"
  /\ LET c == combined_settings(settings, info)
         s == IF settings.script = "orbit" THEN OrbitModelInfo(c, meta_lines)
              ELSE c
     IN  /\ settings' = s
         /\ pc' = IF SetupRaises(s) THEN "raised" ELSE "loop"
         /\ final_gcode' = IF settings.script = "orbit" /\ ~SetupRaises(s)
                           THEN OrbitPreamble ELSE <<>>
  /\ UNCHANGED <<gcode_lines, snapshot_points_list,
                 current_x, current_y, current_z, arcOnly, orbitOnly,
                 snapshots_taken_count, info, meta_lines, events, blocks,
                 appVars>>

\* ---------------------------------------------- main.py: the application
\* None is "" for a path or a stream and <<>> for content or an output path
Files == {"a.gcode", "b.gcode"}
\* the scripts load_scripts finds in SCRIPTS_DIR: the two of the repository
\* and one more file put there
Scripts == {"arc", "orbit", "plugin"}
Firmwares == {"marlin", "klipper"}

Str(t) == [type |-> "str", text |-> t]
List(v) == [type |-> "list", items |-> v]

\* the lines run() makes: what they hold is settled by the file, the
\* script and the settings; each line is a string of one word
OutputLines(f, m, s) ==
  << Str(<<[file |-> f, mode |-> m, settings |-> s, n |-> 1]>>),
     Str(<<[file |-> f, mode |-> m, settings |-> s, n |-> 2]>>) >>

\* what run() of a script returns: arc.py and orbit.py return the pair of
\* the line list and the snapshot list, the other script the line list
ScriptReturn(m, lines) ==
  IF m \in {"arc", "orbit"} THEN <<List(lines), List(<<>>)>> ELSE lines

\* "".join(x): TypeError unless every item of x is a string
JoinOk(x) == \A i \in DOMAIN x : x[i].type = "str"
RECURSIVE Join(_)
Join(x) == IF x = <<>> THEN <<>> ELSE Head(x).text \o Join(Tail(x))

\* what a run can meet: the file is read and run() returns ("ok", or
\* "empty" for a file without lines), open() fails, run() raises, and for
\* a script not of the repository load_script finds no file or no run
Outcomes(m) ==
  {"ok", "empty", "unreadable", "raises"}
    \cup (IF m = "plugin" THEN {"missing", "norun"} ELSE {})

Finished(f, c, m) ==
  [name |-> "finished", filepath |-> f, content |-> c, mode |-> m]
Error(msg) ==
  [name |-> "error", filepath |-> "", content |-> <<>>, mode |-> msg]

\* GCodeProcessorThread.run from the open() to the emit
ProcessorEmits(t, met) ==
  IF met \in {"unreadable", "missing"} THEN Error("Error")
  ELSE IF met = "norun" THEN Error("Script Error")
  ELSE IF met = "raises" THEN Error("unexpected")
  ELSE LET lines == IF met = "empty" THEN <<>>
                    ELSE OutputLines(t.filepath, t.mode, t.settings)
           new_lines == ScriptReturn(t.mode, lines)
       IN  IF JoinOk(new_lines)
           THEN Finished(t.filepath, Join(new_lines), t.mode)
           ELSE Error("unexpected")

\* a thread's handling of sys.stdout: it stores the stream, redirects, and
\* restores in its finally clause if what it stored is truthy
StdoutAfter(redirect) == IF sys_stdout # "" THEN sys_stdout ELSE redirect

\* no thread at work; a thread that has ended is not read again
NoThread ==
  [filepath |-> "", mode |-> "", met |-> "", old_stdout |-> "",
   settings |-> [firmware |-> ""]]

AppFields ==
  /\ processor_thread = NoThread
  /\ signals = <<>>
  /\ original_gcode_filepath = ""
  /\ processed_gcode_content = <<>>
  /\ output_filepath = <<>>
  /\ go_button = [text |-> "Go!", enabled |-> FALSE]
  /\ save_action = FALSE
  /\ script_combo = "arc"
  /\ current_settings = [firmware |-> "marlin"]
  /\ busy = ""
  /\ disk = [p \in Files \X Scripts |-> <<>>]
  /\ user_events = 0

on_settings_or_file_changed(btn, file) ==
  [text |-> IF btn.text = "Open" THEN "Go!" ELSE btn.text,
   enabled |-> file # ""]

\* File > Open with the file f chosen in the dialog
open_gcode_file(f) ==
  /\ user_events < MaxEvents
  /\ user_events' = user_events + 1
  /\ busy = ""
  /\ IF original_gcode_filepath = f
     THEN /\ go_button' = [go_button EXCEPT !.enabled = TRUE]
          /\ UNCHANGED <<original_gcode_filepath, busy>>
     ELSE /\ original_gcode_filepath' = f
          /\ busy' = "parsing"
          /\ go_button' = [go_button EXCEPT !.enabled = FALSE]
  /\ UNCHANGED <<runVars, sys_stdout, processor_thread, signals,
                 processed_gcode_content, output_filepath, save_action,
                 script_combo, current_settings, disk>>

\* GCodeParseThread.run ending in finished, and its slot; flavor is the
\* gcode_flavor of the info dict, "" when the file names none
parsing_finished(flavor) ==
  /\ UNCHANGED user_events
  /\ busy = "parsing"
  /\ sys_stdout' = StdoutAfter("parse_redirect")
  /\ busy' = ""
  /\ IF flavor # ""
     THEN /\ current_settings' = [current_settings EXCEPT !.firmware = flavor]
          /\ go_button' = [on_settings_or_file_changed(
                               go_button, original_gcode_filepath)
                             EXCEPT !.enabled = TRUE]
     ELSE /\ go_button' = [go_button EXCEPT !.enabled = TRUE]
          /\ UNCHANGED current_settings
  /\ UNCHANGED <<runVars, processor_thread, signals,
                 original_gcode_filepath, processed_gcode_content,
                 output_filepath, save_action, script_combo, disk>>

\* GCodeParseThread.run ending in error, and its slot
parsing_error ==
  /\ UNCHANGED user_events
  /\ busy = "parsing"
  /\ sys_stdout' = StdoutAfter("parse_redirect")
  /\ busy' = ""
  /\ original_gcode_filepath' = ""
  /\ go_button' = [go_button EXCEPT !.enabled = FALSE]
  /\ UNCHANGED <<runVars, processor_thread, signals,
                 processed_gcode_content, output_filepath, save_action,
                 script_combo, current_settings, disk>>

\* a settings widget changed by the user
update_setting(key, value) ==
  /\ user_events < MaxEvents
  /\ user_events' = user_events + 1
  /\ busy = ""
  /\ current_settings[key] # value
  /\ current_settings' = [current_settings EXCEPT ![key] = value]
  /\ go_button' = on_settings_or_file_changed(go_button,
                                              original_gcode_filepath)
  /\ UNCHANGED <<runVars, sys_stdout, processor_thread, signals,
                 original_gcode_filepath, processed_gcode_content,
                 output_filepath, save_action, script_combo, busy, disk>>

\* script_combo.currentIndexChanged
script_changed(m) ==
  /\ user_events < MaxEvents
  /\ user_events' = user_events + 1
  /\ busy = ""
  /\ script_combo # m
  /\ script_combo' = m
  /\ go_button' = on_settings_or_file_changed(go_button,
                                              original_gcode_filepath)
  /\ UNCHANGED <<runVars, sys_stdout, processor_thread, signals,
                 original_gcode_filepath, processed_gcode_content,
                 output_filepath, save_action, current_settings, busy, disk>>

\* the click on the button: Open hands the output file over, Go! starts
\* the thread (_process_current_gcode, _set_ui_processing_state(True))
go_button_clicked ==
  /\ user_events < MaxEvents
  /\ user_events' = user_events + 1
  /\ busy = ""
  /\ go_button.enabled
  /\ IF go_button.text = "Open"
     THEN \* _open_processed_file_with_default_app hands output_filepath
          \* to the system
          UNCHANGED <<processor_thread, signals, go_button, save_action,
                      busy>>
     ELSE IF original_gcode_filepath = ""
     THEN UNCHANGED <<processor_thread, signals, go_button, save_action,
                      busy>>
     ELSE /\ busy' = "processing"
          /\ go_button' = [go_button EXCEPT !.enabled = FALSE]
          /\ save_action' = FALSE
          /\ processor_thread' = [filepath |-> original_gcode_filepath,
                                  mode |-> script_combo,
                                  settings |-> current_settings,
                                  met |-> "", old_stdout |-> ""]
          /\ signals' = <<>>
  /\ UNCHANGED <<runVars, sys_stdout, original_gcode_filepath,
                 processed_gcode_content, output_filepath, script_combo,
                 current_settings, disk>>

\* GCodeProcessorThread.run; met is kept with the thread as history
GCodeProcessorThread_run(met) ==
  /\ UNCHANGED user_events
  /\ busy = "processing"
  /\ processor_thread.met = ""
  /\ met \in Outcomes(processor_thread.mode)
  /\ sys_stdout' = StdoutAfter("processor_redirect")
  /\ signals' = Append(signals, ProcessorEmits(processor_thread, met))
  /\ processor_thread' = [processor_thread EXCEPT !.met = met,
                                                  !.old_stdout = sys_stdout]
  /\ UNCHANGED <<runVars, original_gcode_filepath, processed_gcode_content,
                 output_filepath, go_button, save_action, script_combo,
                 current_settings, busy, disk>>

\* _auto_save_processed_gcode: the path it writes, <<>> when it writes none
auto_save_path(content, original_filepath, mode, writable) ==
  IF content = <<>> \/ original_filepath = "" \/ ~writable THEN <<>>
  ELSE <<original_filepath, mode>>

\* the slot of the finished signal; writable says whether the write of the
\* output file succeeds
processing_finished(writable) ==
  /\ UNCHANGED user_events
  /\ busy = "processing"
  /\ Len(signals) = 1
  /\ signals[1].name = "finished"
  /\ busy' = ""
  /\ LET sig == signals[1]
         path == auto_save_path(sig.content, sig.filepath, sig.mode, writable)
     IN  IF sig.content # <<>>
         THEN /\ processed_gcode_content' = sig.content
              /\ save_action' = TRUE
              /\ output_filepath' = path
              /\ disk' = IF path # <<>>
                         THEN [disk EXCEPT ![path] = sig.content] ELSE disk
              /\ go_button' = [text |-> IF path # <<>> THEN "Open" ELSE "Go!",
                               enabled |-> TRUE]
         ELSE /\ processed_gcode_content' = <<>>
              /\ save_action' = FALSE
              /\ go_button' = [text |-> "Go!", enabled |-> TRUE]
              /\ UNCHANGED <<output_filepath, disk>>
  /\ processor_thread' = NoThread
  /\ signals' = <<>>
  /\ UNCHANGED <<runVars, sys_stdout,
                 original_gcode_filepath, script_combo, current_settings>>

\* the slot of the error signal
processing_error ==
  /\ UNCHANGED user_events
  /\ busy = "processing"
  /\ Len(signals) = 1
  /\ signals[1].name = "error"
  /\ busy' = ""
  /\ processed_gcode_content' = <<>>
  /\ save_action' = FALSE
  /\ go_button' = [text |-> "Go!", enabled |-> TRUE]
  /\ processor_thread' = NoThread
  /\ signals' = <<>>
  /\ UNCHANGED <<runVars, sys_stdout,
                 original_gcode_filepath, output_filepath, script_combo,
                 current_settings, disk>>

\* File > Save Processed G-code
save_processed_gcode(writable) ==
  /\ user_events < MaxEvents
  /\ user_events' = user_events + 1
  /\ busy = ""
  /\ save_action
  /\ LET path == auto_save_path(processed_gcode_content,
                                original_gcode_filepath, script_combo,
                                writable)
     IN  IF path # <<>>
         THEN /\ disk' = [disk EXCEPT ![path] = processed_gcode_content]
              /\ save_action' = FALSE
         ELSE UNCHANGED <<disk, save_action>>
  /\ UNCHANGED <<runVars, sys_stdout, processor_thread, signals,
                 original_gcode_filepath, processed_gcode_content,
                 output_filepath, go_button, script_combo, current_settings,
                 busy>>

\* ------------------------------------------------------------ the passes
\* the state of run() on entering its loop
InitWith(cfgs) ==
  /\ settings \in cfgs
  /\ gcode_lines = <<>>
  /\ final_gcode = IF settings.script = "orbit" THEN OrbitPreamble ELSE <<>>
  /\ snapshot_points_list = <<>>
  /\ current_x = 0 /\ current_y = 0 /\ current_z = 0
  /\ is_relative = FALSE
  /\ original_pos = <<0, 0, 0>>
  /\ current_logical_layer = 0
  /\ current_z_for_distinct_layer_check = 0 - 9999 * U
  /\ layers_with_inserted_snapshots = {}
  /\ layer_count = 0
  /\ awaiting_z_for_layer_inference = FALSE
  /\ snapshots_taken_count = 0
  /\ pc = "loop"
  /\ info = NoInfo
  /\ meta_lines = <<>>
  /\ events = <<>>
  /\ blocks = <<>>
  /\ sys_stdout = "console"
  /\ AppFields

Init == InitWith(Configs)

\* any line may come next, up to MaxLen lines
Next ==
  /\ Len(gcode_lines) < MaxLen
  /\ \E line \in Alphabet : ArcConsume(line) \/ OrbitConsume(line)

Spec == Init /\ [][Next]_vars

\* the 3-layer file of the marker scenario: each marker, then its move
Scenario ==
  << Line("layer", <<>>, 0), Line("move", <<Tok("Z", 2000)>>, 0),
     Line("layer", <<>>, 1),
     Line("move", <<Tok("X", 20000), Tok("Z", 4000)>>, 0),
     Line("layer", <<>>, 2), Line("move", <<Tok("Z", 6000)>>, 0) >>

ScenarioNext ==
  /\ Len(gcode_lines) < Len(Scenario)
  /\ LET line == Scenario[Len(gcode_lines) + 1]
     IN  ArcConsume(line) \/ OrbitConsume(line)

SpecScenario == Init /\ [][ScenarioNext]_vars

\* the pass from the opening of a file: the extractor reads the metadata
\* comments, then run() goes over the same file, the comments first
MetaConfigs ==
  { [BaseSettings EXCEPT !.script = sc, !.num_snapshots = 2,
                         !.snapshots_per_loop = 2,
                         !.first_snapshot_layer = 0,
                         !.total_layers = NoneVal, !.min_x = NoneVal,
                         !.max_x = NoneVal, !.min_y = NoneVal,
                         !.max_y = NoneVal, !.max_z = NoneVal] :
      sc \in {"arc", "orbit"} }

MetaBody ==
  << Line("move", <<Tok("Z", 2000)>>, 0), Line("layer", <<>>, 2),
     Line("move", <<Tok("X", 20000), Tok("Z", 4000)>>, 0) >>

\* the i-th line of the file as run() sees it: a metadata comment is a
\* line that neither moves nor marks a layer
FileLine(i) ==
  IF i <= Len(meta_lines) THEN Line("other", <<>>, 0)
  ELSE MetaBody[i - Len(meta_lines)]

InitMeta ==
  /\ settings \in MetaConfigs
  /\ gcode_lines = <<>>
  /\ final_gcode = <<>>
  /\ snapshot_points_list = <<>>
  /\ current_x = 0 /\ current_y = 0 /\ current_z = 0
  /\ is_relative = FALSE
  /\ original_pos = <<0, 0, 0>>
  /\ current_logical_layer = 0
  /\ current_z_for_distinct_layer_check = 0 - 9999 * U
  /\ layers_with_inserted_snapshots = {}
  /\ layer_count = 0
  /\ awaiting_z_for_layer_inference = FALSE
  /\ snapshots_taken_count = 0
  /\ pc = "parse"
  /\ info = NoInfo
  /\ meta_lines = <<>>
  /\ events = <<>>
  /\ blocks = <<>>
  /\ sys_stdout = "console"
  /\ AppFields

NextMeta ==
  \/ \E m \in MetaLines : ParseLine(m)
  \/ ParseEnd
  \/ ProcessStart
  \/ /\ Len(gcode_lines) < Len(meta_lines) + Len(MetaBody)
     /\ LET line == FileLine(Len(gcode_lines) + 1)
        IN  ArcConsume(line) \/ OrbitConsume(line)

SpecMeta == InitMeta /\ [][NextMeta]_vars

\* the arc generator over corners, boxes, Z ranges and phase fractions, on
\* a file each of whose lines starts a layer
ArcBoxes ==
  { <<0, 20 * U, 0, 10 * U>>, <<0, 10 * U, 0, 20 * U>>,
    <<5 * U, 5 * U, 0, 10 * U>>, <<0 - 10 * U, 10 * U, 0 - 10 * U, 10 * U>> }
\* num_snapshots, vertical_only_percentage, horizontal_only_percentage
ArcPacings ==
  { <<3, 4, 4>>, <<3, 0, 0>>, <<5, 0, 10>>, <<5, 10, 0>>,
    <<3, 10, 10>>, <<5, 16, 12>>, <<3, 20, 20>> }

ArcGeomConfigs ==
  { [BaseSettings EXCEPT !.script = "arc", !.first_snapshot_layer = 0,
                         !.total_layers = 4,
                         !.start_corner = c0, !.end_corner = c2,
                         !.min_x = b[1], !.max_x = b[2],
                         !.min_y = b[3], !.max_y = b[4],
                         !.min_z_print = mz,
                         !.camera_distance_z_factor = cf,
                         !.num_snapshots = pp[1],
                         !.vertical_only_percentage = pp[2],
                         !.horizontal_only_percentage = pp[3]] :
      c0 \in Corners, c2 \in Corners, b \in ArcBoxes, mz \in {0, 2000},
      cf \in {100, 150}, pp \in ArcPacings }

ArcGeomInput ==
  << Line("move", <<Tok("Z", 2000)>>, 0),
     Line("move", <<Tok("X", 20000), Tok("Z", 4000)>>, 0),
     Line("move", <<Tok("Z", 6000)>>, 0),
     Line("move", <<Tok("Z", 8000)>>, 0) >>

InitArcGeom == InitWith(ArcGeomConfigs)

NextArcGeom ==
  /\ Len(gcode_lines) < Len(ArcGeomInput)
  /\ ArcConsume(ArcGeomInput[Len(gcode_lines) + 1])

SpecArcGeom == InitArcGeom /\ [][NextArcGeom]_vars

\* one orbit of 8 snapshots: every layer from first_snapshot_layer on takes
\* one, and each line is the marker of the next layer or a move
OrbitLapConfigs ==
  { [BaseSettings EXCEPT !.script = "orbit", !.num_orbits = 1,
                         !.snapshots_per_loop = 8, !.total_layers = 8,
                         !.first_snapshot_layer = f, !.start_angle = a] :
      f \in {0, 1}, a \in {0, 90} }

OrbitLapLines(layer) ==
  { Line("layer", <<>>, layer + 1),
    Line("move", <<Tok("X", 20000), Tok("Z", 4000)>>, 0) }

InitOrbitLap == InitWith(OrbitLapConfigs)

NextOrbitLap ==
  /\ Len(gcode_lines) < MaxLap
  /\ \E line \in OrbitLapLines(layer_count) : OrbitConsume(line)

SpecOrbitLap == InitOrbitLap /\ [][NextOrbitLap]_vars

\* an arc pass over Z moves around the 0.05 mm threshold: rises of 0.05,
\* 0.06 and more, equal and falling Z, relative moves, a marker, a comment
ZConfigs ==
  { [BaseSettings EXCEPT !.script = "arc", !.num_snapshots = MaxN,
                         !.first_snapshot_layer = f] : f \in {0, MaxF} }

ZLines ==
  { Line("move", <<Tok("Z", 2000)>>, 0),          \* G1 Z0.2
    Line("move", <<Tok("Z", 2500)>>, 0),          \* G1 Z0.25
    Line("move", <<Tok("Z", 2600)>>, 0),          \* G1 Z0.26
    Line("move", <<Tok("Z", 4000)>>, 0),          \* G1 Z0.4
    Line("move", <<Tok("Z", 0 - 300)>>, 0),       \* G1 Z-0.03
    Line("G91", <<>>, 0),
    Line("layer", <<>>, 1),                       \* ;LAYER:1
    Line("other", <<>>, 0) }                      \* M104 S200

InitZ == InitWith(ZConfigs)

NextZ ==
  /\ Len(gcode_lines) < MaxZ
  /\ \E line \in ZLines : ArcConsume(line)

SpecZ == InitZ /\ [][NextZ]_vars

\* an orbit pass whose layer total is unknown, over markers around the
\* multiples of the default interval
StrideConfigs ==
  { [BaseSettings EXCEPT !.script = "orbit", !.total_layers = NoneVal,
                         !.num_orbits = 1, !.snapshots_per_loop = n,
                         !.first_snapshot_layer = f] :
      n \in {0, 2, 3}, f \in {0, 1} }

StrideLines ==
  { Line("layer", <<>>, n) : n \in {0, 1, 50, 51, 100, 101} }
  \cup { Line("height", <<>>, 2000) }

InitStride == InitWith(StrideConfigs)

NextStride ==
  /\ Len(gcode_lines) < MaxStride
  /\ \E line \in StrideLines : OrbitConsume(line)

SpecStride == InitStride /\ [][NextStride]_vars

\* the divisors of the divisions and of the modulo that run() carries out,
\* each under the condition the code puts in front of it
\* arc.py:113-114, the rescaling of overlapping fractions
ArcSetupDivisors(s) ==
  IF s.vertical_only_percentage + s.horizontal_only_percentage > 20
  THEN {PhaseSum(s)} ELSE {}
\* arc.py:182 and 212, for the snapshot taken after `count` others
ArcSnapshotDivisors(s, count) ==
  LET t == arc_t_global(s, count)
      a == z_end_vertical_phase_percentage(s)
      b == z_start_horizontal_phase_percentage(s)
      dur == QSub(b, a)
  IN  {global_progress_divisor(s)}
        \cup (IF ~QLt(t, a) /\ ~QLt(b, t) /\ QLt(QInt(0), dur)
              THEN {dur[1]} ELSE {})
\* orbit.py:208 and 241
OrbitSetupDivisors(s) ==
  (IF s.total_layers # NoneVal /\ s.total_layers > 0
      /\ s.max_z # NoneVal /\ s.max_z > 0
   THEN {Max2(1, s.total_layers)} ELSE {})
    \cup (IF s.total_layers # NoneVal /\ s.total_layers > 0
             /\ total_expected_snapshots(s) > 0
          THEN {total_expected_snapshots(s)} ELSE {})
\* orbit.py:347, on a ;Z: comment
OrbitCommentDivisors(s) ==
  IF QLt(QInt(0), average_layer_height(s))
  THEN {average_layer_height(s)[1]} ELSE {}
\* orbit.py:379, when the snapshot conditions are evaluated at a layer
OrbitEventDivisors(s, layer) ==
  IF layer >= s.first_snapshot_layer /\ layer_interval_per_snapshot(s) > 0
  THEN {layer_interval_per_snapshot(s)} ELSE {}
\* orbit.py:427, for a snapshot
OrbitSnapshotDivisors(s) == {Max2(1, total_expected_snapshots(s) - 1)}

\* both schedulers over the counts, floors, totals and fractions that make
\* a divisor small
DivConfigs ==
  { [BaseSettings EXCEPT !.script = "arc", !.num_snapshots = n,
                         !.first_snapshot_layer = f,
                         !.vertical_only_percentage = pp[1],
                         !.horizontal_only_percentage = pp[2]] :
      n \in {0, 1, 3}, f \in {0, 2},
      pp \in {<<4, 4>>, <<0, 0>>, <<10, 10>>, <<20, 20>>} }
  \cup
  { [BaseSettings EXCEPT !.script = "orbit", !.num_orbits = 1,
                         !.snapshots_per_loop = n,
                         !.first_snapshot_layer = f,
                         !.total_layers = t] :
      n \in {0, 1, 3}, f \in {0, 2}, t \in {NoneVal, 0, 1, 3} }

DivLines ==
  { Line("layer", <<>>, n) : n \in {0, 1, 2, 3} }
  \cup { Line("layer_change", <<>>, 0), Line("zc", <<>>, 4000) }

InitDiv == InitWith(DivConfigs)

NextDiv ==
  /\ Len(gcode_lines) < MaxLen
  /\ \E line \in DivLines : ArcConsume(line) \/ OrbitConsume(line)

SpecDiv == InitDiv /\ [][NextDiv]_vars

\* the application from its start: the user opens files, changes settings
\* and the script, clicks the button and saves, the threads run between
InitApp ==
  /\ settings = BaseSettings
  /\ gcode_lines = <<>>
  /\ final_gcode = <<>>
  /\ snapshot_points_list = <<>>
  /\ current_x = 0 /\ current_y = 0 /\ current_z = 0
  /\ is_relative = FALSE
  /\ original_pos = <<0, 0, 0>>
  /\ current_logical_layer = 0
  /\ current_z_for_distinct_layer_check = 0 - 9999 * U
  /\ layers_with_inserted_snapshots = {}
  /\ layer_count = 0
  /\ awaiting_z_for_layer_inference = FALSE
  /\ snapshots_taken_count = 0
  /\ pc = "parse"
  /\ info = NoInfo
  /\ meta_lines = <<>>
  /\ events = <<>>
  /\ blocks = <<>>
  /\ sys_stdout \in {"console", ""}
  /\ AppFields

NextApp ==
  \/ \E f \in Files : open_gcode_file(f)
  \/ \E flavor \in Firmwares \cup {""} : parsing_finished(flavor)
  \/ parsing_error
  \/ \E v \in Firmwares : update_setting("firmware", v)
  \/ \E m \in Scripts : script_changed(m)
  \/ go_button_clicked
  \/ \E met \in {"ok", "empty", "unreadable", "raises", "missing", "norun"} :
        GCodeProcessorThread_run(met)
  \/ \E w \in BOOLEAN : processing_finished(w)
  \/ processing_error
  \/ \E w \in BOOLEAN : save_processed_gcode(w)

SpecApp == InitApp /\ [][NextApp]_vars

\* ================================================================ claims
N == total_expected_snapshots(settings)
F == settings.first_snapshot_layer
T == settings.total_layers

IsOrig(e) == e.src = "orig"
Originals == SelectSeq(final_gcode, IsOrig)
KindIdx(k) == {p \in DOMAIN final_gcode : final_gcode[p].k = k}
\* the position in final_gcode of the i-th injected line of kind k
PosOf(k, i) ==
  CHOOSE p \in KindIdx(k) : Cardinality({q \in KindIdx(k) : q <= p}) = i

\* C1: the output holds every input line, unmodified and in input order, so
\* it is at least as long as the input; injected lines only come in between.
C1_OriginalLinesPreserved ==
  /\ Len(final_gcode) >= Len(gcode_lines)
  /\ Len(Originals) = Len(gcode_lines)
  /\ \A i \in DOMAIN gcode_lines :
       Originals[i].line = gcode_lines[i] /\ Originals[i].n = i
C1_Witness == Len(blocks) >= 2 /\ Len(gcode_lines) >= 3

\* C2: at most N snapshot blocks are in the output, whatever layer events
\* occur; after the N-th block no later line triggers one.
C2_AtMostN ==
  /\ Cardinality(KindIdx("header")) <= N
  /\ Len(blocks) <= N
C2_Witness ==
  /\ N >= 1
  /\ Len(blocks) = N
  /\ \E i \in DOMAIN events :
       /\ events[i].trig > blocks[N].trig
       /\ events[i].layer >= F
       /\ ~events[i].accepted

\* C3: no two snapshot blocks of one pass carry the same layer index.
C3_DistinctLayers ==
  \A p, q \in KindIdx("header") :
    p # q => final_gcode[p].n # final_gcode[q].n

\* C4: every emitted block's layer index is at least first_snapshot_layer.
C4_FloorRespected ==
  /\ \A p \in KindIdx("header") : final_gcode[p].n >= F
  /\ \A i \in DOMAIN blocks : blocks[i].layer >= F
C4_Witness ==
  /\ blocks # <<>>
  /\ \E i \in DOMAIN events :
       events[i].layer < F /\ events[i].trig < blocks[1].trig

\* C5: the k-th accepted snapshot (k from 0) is generated with
\* t = k / max(1, N-1): 0 for the first, growing by 1/max(1, N-1) per
\* snapshot, within [0, 1], whatever the layer or Z of the triggering line.
C5_ProgressFraction ==
  \A i \in DOMAIN blocks :
    /\ blocks[i].t = Q(i - 1, Max2(1, N - 1))
    /\ QLe(QInt(0), blocks[i].t) /\ QLe(blocks[i].t, QInt(1))
    /\ i > 1 => QSub(blocks[i].t, blocks[i - 1].t) = Q(1, Max2(1, N - 1))
C5_Witness ==
  /\ Len(blocks) >= 2
  /\ blocks[2].cur[3] # blocks[1].cur[3]
  /\ blocks[2].layer > blocks[1].layer

\* C6: on the 3-layer marker file with N = 2 and F = 0 exactly two blocks
\* are emitted, for layer 0 with t = 0 and for layer 2 with t = 1.
C6_MarkerScenario ==
  (gcode_lines = Scenario /\ N = 2 /\ F = 0) =>
    /\ Len(blocks) = 2
    /\ blocks[1].layer = 0 /\ blocks[1].t = QInt(0)
    /\ blocks[2].layer = 2 /\ blocks[2].t = QInt(1)

\* C7: with T known and N > 1 the k-th accepted snapshot (k from 0) lies at
\* or beyond the target F + k * (T-F)/(N-1) (interval rounded down).
C7_SpacedByInterval ==
  (T # NoneVal /\ N > 1 /\ T > F) =>
    \A i \in DOMAIN blocks :
      blocks[i].layer >= F + (i - 1) * ((T - F) \div (N - 1))

\* C8: with N <= 1 a layer event is selected exactly if N = 1 and it is the
\* first one whose index is >= F; its snapshot has t = 0 and the start
\* corner (arc) or the start angle (orbit).
C8_SingleSnapshot ==
  N <= 1 =>
    /\ \A i \in DOMAIN events :
         events[i].accepted <=>
           /\ N = 1
           /\ events[i].layer >= F
           /\ \A j \in 1..(i - 1) : events[j].layer < F
    /\ \A i \in DOMAIN blocks :
         /\ blocks[i].t = QInt(0)
         /\ settings.script = "arc" =>
              LET P0 == corner_coords(settings, settings.start_corner)
              IN  blocks[i].wp.x = QInt(P0[1]) /\ blocks[i].wp.y = QInt(P0[2])
         /\ settings.script = "orbit" =>
              blocks[i].wp.angle = QInt(settings.start_angle)

\* C9: the return move of every block targets the position the tracker
\* held before the triggering line (printed with 3 decimals).
C9_ReturnIsPreInjection ==
  \A i \in DOMAIN blocks :
    LET r == final_gcode[PosOf("return", i)]
    IN  <<r.x, r.y, r.z>> = <<Fmt3(QInt(blocks[i].pre[1])),
                              Fmt3(QInt(blocks[i].pre[2])),
                              Fmt3(QInt(blocks[i].pre[3]))>>

\* C10: the line right after every block footer is the line that triggered
\* the block, and the block lies wholly between the preceding original line
\* and the triggering line.
C10_TriggerFollowsBlock ==
  /\ Cardinality(KindIdx("header")) = Len(blocks)
  /\ Cardinality(KindIdx("footer")) = Len(blocks)
  /\ \A i \in DOMAIN blocks :
       LET h == PosOf("header", i)
           f == PosOf("footer", i)
           b == blocks[i]
       IN  /\ h < f
           /\ \A p \in h..f : final_gcode[p].src = "inj"
           /\ f < Len(final_gcode)
           /\ final_gcode[f + 1] = Orig(gcode_lines[b.trig], b.trig)
           /\ IF b.trig = 1
              THEN \A p \in 1..(h - 1) : final_gcode[p].k = "preamble"
                                        \/ final_gcode[p].k \in {"G90", "M82"}
              ELSE final_gcode[h - 1] =
                     Orig(gcode_lines[b.trig - 1], b.trig - 1)
C10_Witness ==
  /\ blocks # <<>>
  /\ blocks[1].trig > 1
  /\ Len(gcode_lines) > blocks[1].trig

\* the kinds of the lines of the i-th block, header to footer
BlockKinds(i) ==
  LET h == PosOf("header", i)
      f == PosOf("footer", i)
  IN  [p \in 1..(f - h + 1) |-> final_gcode[h + p - 1].k]

\* C11: every block is, in this order and with nothing else: header, G90,
\* G91 and a negative E move if retract_length > 0, one travel move, G4 if
\* dwell_time > 0, the TAKE_FRAME sentinel, the return move, (G91,) a
\* positive E move and G90 if retract_length > 0, footer.
C11_BlockSteps ==
  \A i \in DOMAIN blocks :
    LET r == settings.retract_length > 0
        front == <<"header", "G90">> \o Opt(r, <<"G91", "retract">>)
                 \o <<"travel">>
                 \o Opt(settings.dwell_time > 0, <<"G4">>)
                 \o <<"TAKE", "return">>
    IN  BlockKinds(i) \in
          { front \o Opt(r, <<"G91", "unretract", "G90">>) \o <<"footer">>,
            front \o Opt(r, <<"unretract", "G90">>) \o <<"footer">> }

\* C12: with retract_length = 0 no injected line is an E move or a G91.
C12_NoExtrusionWithoutRetract ==
  settings.retract_length = 0 =>
    \A p \in DOMAIN final_gcode :
      final_gcode[p].src = "inj" =>
        /\ final_gcode[p].k \notin {"G91", "retract", "unretract"}
        /\ final_gcode[p].e = 0
C12_Witness ==
  /\ settings.retract_length = 0
  /\ Len(blocks) >= 2
  /\ settings.dwell_time = 0

\* the consumed metadata lines that resolve a field
Resolving(kinds) == {j \in DOMAIN meta_lines : meta_lines[j].kind \in kinds}
NoModelMetadata ==
  Resolving({"polygon", "range", "minmax", "max_z", "total_phrase",
             "layers", "total_layers", "max_layer"}) = {}

\* C13: on a file without bounding-box, max-Z and total-layer comments run()
\* does not raise: it enters its loop with centre (110, 110), max_z 250 and
\* the fixed interval of the unknown total.
C13_RunCompletesWithoutMetadata ==
  (pc \in {"loop", "raised"} /\ NoModelMetadata) =>
    /\ pc = "loop"
    /\ settings.script = "orbit" =>
         /\ model_center(settings) = <<QInt(110 * U), QInt(110 * U)>>
         /\ calculated_max_snapshot_z(settings) = 250 * U
         /\ layer_interval_per_snapshot(settings) = 50
    /\ settings.script = "arc" => settings.max_z = 250 * U

\* C14: once the extractor is done no field is undefined: the bed is set
\* (220 x 220 without a valid bed comment), max_z is set (250 without a
\* max-Z source), and the scripts read a defined max_z.
C14_NoFieldUndefined ==
  pc # "parse" =>
    /\ info.bed_dimensions # <<>>
    /\ Resolving({"bed_size", "printable_area"}) = {} =>
         info.bed_dimensions = <<DEFAULT_BED_X, DEFAULT_BED_Y>>
    /\ info.max_z # NoneVal
    /\ Resolving({"range", "max_z"}) = {} => info.max_z = 250 * U
    /\ pc \in {"loop", "raised"} => settings.max_z # NoneVal

\* C15: with both control offsets 0, a Phase-2 waypoint at re-normalised
\* t = 1/2 has X and Y at the means of the two corners' X and Y, and its
\* path Z at the mean of the Z values where Phase 2 starts and ends; the
\* travel line prints these values.
C15_BezierMidpoint ==
  \A i \in DOMAIN blocks :
    LET s == settings
        w == blocks[i].wp
        P0 == corner_coords(s, s.start_corner)
        P2 == corner_coords(s, s.end_corner)
        zr == s.max_z - s.min_z_print
        zs == QAdd(QInt(s.min_z_print),
                   QMul(QInt(zr), z_end_vertical_phase_percentage(s)))
        ze == QAdd(QInt(s.min_z_print),
                   QMul(QInt(zr), z_start_horizontal_phase_percentage(s)))
        tr == final_gcode[PosOf("travel", i)]
    IN  ( /\ s.script = "arc"
          /\ s.arc_control_offset_h = 0 /\ s.arc_control_offset_v = 0
          /\ s.min_x <= s.max_x /\ s.min_y <= s.max_y
          /\ s.min_z_print <= s.max_z
          /\ w.phase = 2 /\ w.t_arc = Q(1, 2) ) =>
        /\ w.x = Q(P0[1] + P2[1], 2)
        /\ w.y = Q(P0[2] + P2[2], 2)
        /\ w.snapshot_base_z = QMul(QAdd(zs, ze), Q(1, 2))
        /\ tr.x = Fmt3(Q(P0[1] + P2[1], 2))
        /\ tr.y = Fmt3(Q(P0[2] + P2[2], 2))
C15_Witness ==
  \E i \in DOMAIN blocks :
    LET P0 == corner_coords(settings, settings.start_corner)
        P2 == corner_coords(settings, settings.end_corner)
    IN  /\ blocks[i].wp.phase = 2 /\ blocks[i].wp.t_arc = Q(1, 2)
        /\ P0[1] # P2[1] /\ P0[2] # P2[2]
        /\ Abs(P2[1] - P0[1]) < Abs(P2[2] - P0[2])
        /\ settings.vertical_only_percentage
             # settings.horizontal_only_percentage
        /\ settings.min_z_print > 0

\* C16: with one orbit of 8 snapshots the azimuth of the i-th snapshot is
\* start_angle + 45 * (i - 1) degrees; in general consecutive snapshots are
\* 360 / snapshots_per_loop degrees apart.
C16_EvenAzimuths ==
  (settings.script = "orbit" /\ settings.snapshots_per_loop > 0) =>
    \A i \in DOMAIN blocks :
      /\ blocks[i].wp.angle =
           QAdd(QInt(settings.start_angle),
                Q(360 * (i - 1), settings.snapshots_per_loop))
      /\ (settings.num_orbits = 1 /\ settings.snapshots_per_loop = 8) =>
           blocks[i].wp.angle = QInt(settings.start_angle + 45 * (i - 1))

\* C17: across the layer events of one pass the layer index strictly
\* increases, and no input line produces more than one event.
C17_LayerIndexIncreases ==
  \A i, j \in DOMAIN events :
    i < j => /\ events[i].layer < events[j].layer
             /\ events[i].trig < events[j].trig

\* the layer counter of the running script
LayerCounter ==
  IF settings.script = "arc" THEN current_logical_layer ELSE layer_count

\* C18: a ;LAYER:id line fires a layer event exactly when id is greater than
\* the layer counter, and then the counter becomes id; otherwise the counter
\* keeps its value.  The toolpath parser advances its counter the same way.
C18_MarkerFiresIffGreater ==
  [][ (pc = "loop" /\ Len(gcode_lines') = Len(gcode_lines) + 1
       /\ gcode_lines'[Len(gcode_lines')].kind = "layer")
      => LET id == gcode_lines'[Len(gcode_lines')].n
             fired == Len(events') = Len(events) + 1
             tp == toolpath_current_layer(gcode_lines)
         IN  /\ fired <=> id > LayerCounter
             /\ fired => events'[Len(events')].layer = id
             /\ LayerCounter' = IF id > LayerCounter THEN id ELSE LayerCounter
             /\ toolpath_current_layer(gcode_lines')
                  = IF id > tp THEN id ELSE tp ]_vars

\* a marker that fired is followed by a marker with the same or a smaller
\* number, which fired nothing
C18_Witness ==
  \E i, j \in DOMAIN gcode_lines :
    /\ i < j
    /\ gcode_lines[i].kind = "layer" /\ gcode_lines[j].kind = "layer"
    /\ gcode_lines[j].n <= gcode_lines[i].n
    /\ \E e \in DOMAIN events : events[e].trig = i
    /\ \A e \in DOMAIN events : events[e].trig # j
    /\ LayerCounter >= gcode_lines[i].n

\* an arc pass over a file in which every layer has its marker followed by
\* its Z move: markers with rising numbers at the odd lines, absolute moves
\* with a Z word at the even lines
IsLayerZMove(line) ==
  /\ line.kind = "move"
  /\ \E k \in DOMAIN line.toks : line.toks[k].axis = "Z"
  /\ gcode_move_pattern(line).hasZ
MarkedInput ==
  /\ settings.script = "arc"
  /\ pc = "loop"
  /\ gcode_lines # <<>>
  /\ \A i \in DOMAIN gcode_lines :
       IF i % 2 = 1
       THEN /\ gcode_lines[i].kind = "layer"
            /\ gcode_lines[i].n >= 1
            /\ i > 2 => gcode_lines[i].n > gcode_lines[i - 2].n
       ELSE IsLayerZMove(gcode_lines[i])
LastMarkerId ==
  LET odd == {i \in DOMAIN gcode_lines : i % 2 = 1}
      top == CHOOSE i \in odd : \A j \in odd : j <= i
  IN  gcode_lines[top].n

\* C19: in a pass over such a file the layer counter equals the last marker
\* id, and right after a marker fired the Z baseline of the fallback is the
\* current Z.
C19_MarkerResetsZBaseline ==
  MarkedInput =>
    /\ current_logical_layer = LastMarkerId
    /\ (Len(gcode_lines) % 2 = 1
        /\ \E e \in DOMAIN events : events[e].trig = Len(gcode_lines))
       => current_z_for_distinct_layer_check = current_z

\* C20: on a line without a marker the fallback of arc.py fires exactly when
\* the Z after the line is more than 0.05 mm above the baseline; it then adds
\* 1 to the layer counter and makes that Z the baseline; otherwise counter
\* and baseline keep their values.
C20_ZDeltaFallback ==
  [][ (pc = "loop" /\ settings.script = "arc"
       /\ Len(gcode_lines') = Len(gcode_lines) + 1
       /\ gcode_lines'[Len(gcode_lines')].kind # "layer")
      => LET base == current_z_for_distinct_layer_check
             fired == Len(events') = Len(events) + 1
         IN  /\ fired <=> current_z' - base > 500
             /\ fired =>
                  /\ current_logical_layer' = current_logical_layer + 1
                  /\ events'[Len(events')].layer = current_logical_layer + 1
                  /\ current_z_for_distinct_layer_check' = current_z'
             /\ ~fired =>
                  /\ events' = events
                  /\ current_logical_layer' = current_logical_layer
                  /\ current_z_for_distinct_layer_check' = base ]_vars

\* the fallback fired on an earlier line, and the last line is a move that
\* left Z above the baseline by no more than 0.05 mm and fired nothing
C20_Witness ==
  /\ settings.script = "arc"
  /\ Len(gcode_lines) >= 2
  /\ gcode_lines[Len(gcode_lines)].kind = "move"
  /\ current_z > current_z_for_distinct_layer_check
  /\ current_z - current_z_for_distinct_layer_check <= 500
  /\ \A e \in DOMAIN events : events[e].trig # Len(gcode_lines)
  /\ \E e \in DOMAIN events :
       /\ gcode_lines[events[e].trig].kind = "move"
       /\ events[e].layer >= 2

\* what a printer makes of one line: every X, Y, Z word of a G0/G1 line
\* sets its axis in absolute mode and adds to it in relative mode; a G90 or
\* G91 line sets the mode; any other line changes nothing
RECURSIVE MachineApply(_, _, _)
MachineApply(tk, p, rel) ==
  IF tk = <<>> THEN p
  ELSE LET h == Head(tk)
           v(old) == IF rel THEN old + h.val ELSE h.val
           q == CASE h.axis = "X" -> <<v(p[1]), p[2], p[3]>>
                  [] h.axis = "Y" -> <<p[1], v(p[2]), p[3]>>
                  [] h.axis = "Z" -> <<p[1], p[2], v(p[3])>>
                  [] OTHER -> p
       IN  MachineApply(Tail(tk), q, rel)
MachineStep(line, st) ==
  CASE line.kind = "G90" -> [pos |-> st.pos, rel |-> FALSE]
    [] line.kind = "G91" -> [pos |-> st.pos, rel |-> TRUE]
    [] line.kind = "move" ->
         [pos |-> MachineApply(line.toks, st.pos, st.rel), rel |-> st.rel]
    [] OTHER -> st
RECURSIVE MachineState(_)
MachineState(lines) ==
  IF lines = <<>> THEN [pos |-> <<0, 0, 0>>, rel |-> FALSE]
  ELSE MachineStep(lines[Len(lines)],
                   MachineState(SubSeq(lines, 1, Len(lines) - 1)))

\* C21: after any input the position tracked by the script, and the mode
\* tracked by arc.py, are those of the machine, and so are the position and
\* mode of the preview parser.
C21_TrackerFollowsMachine ==
  LET ref == MachineState(gcode_lines)
  IN  /\ <<current_x, current_y, current_z>> = ref.pos
      /\ settings.script = "arc" => is_relative = ref.rel
      /\ toolpath_state(gcode_lines) = ref

\* what a printer makes of one output line: an original line as above, an
\* injected G90/G91 as a mode change, an injected move by its axis words
ReplayStep(e, st) ==
  LET v(old, new) == IF st.rel THEN old + new ELSE new
  IN  CASE e.src = "orig" -> MachineStep(e.line, st)
        [] e.src = "inj" /\ e.k = "G90" -> [pos |-> st.pos, rel |-> FALSE]
        [] e.src = "inj" /\ e.k = "G91" -> [pos |-> st.pos, rel |-> TRUE]
        [] e.src = "inj" /\ e.k = "zhop" ->
             [pos |-> <<st.pos[1], st.pos[2], v(st.pos[3], e.z)>>,
              rel |-> st.rel]
        [] e.src = "inj" /\ e.k \in {"travel", "return"} ->
             [pos |-> <<v(st.pos[1], e.x), v(st.pos[2], e.y),
                        v(st.pos[3], e.z)>>,
              rel |-> st.rel]
        [] OTHER -> st
RECURSIVE ReplayState(_)
ReplayState(out) ==
  IF out = <<>> THEN [pos |-> <<0, 0, 0>>, rel |-> FALSE]
  ELSE ReplayStep(out[Len(out)], ReplayState(SubSeq(out, 1, Len(out) - 1)))

\* C22: replaying the output, every original line is met in the mode in
\* which the input stream stands before that line.
C22_BlockKeepsMode ==
  \A p \in DOMAIN final_gcode :
    IsOrig(final_gcode[p]) =>
      ReplayState(SubSeq(final_gcode, 1, p - 1)).rel
        = MachineState(SubSeq(gcode_lines, 1, final_gcode[p].n - 1)).rel

\* the header that opens the block of the injected line at p
BlockOf(p) ==
  LET hs == {h \in KindIdx("header") : h <= p}
  IN  CHOOSE h \in hs : \A g \in hs : g <= h

\* C23: a block holds an unretraction of +retract_length exactly when it
\* holds, before it, a retraction of -retract_length.
C23_NetExtrusionZero ==
  /\ \A p \in KindIdx("unretract") :
       \E q \in KindIdx("retract") :
         /\ q < p /\ BlockOf(q) = BlockOf(p)
         /\ final_gcode[q].e = 0 - final_gcode[p].e
  /\ \A q \in KindIdx("retract") :
       \E p \in KindIdx("unretract") :
         /\ q < p /\ BlockOf(q) = BlockOf(p)
         /\ final_gcode[q].e = 0 - final_gcode[p].e

\* C24: replaying the output, every injected move that carries an X, Y or Z
\* word is met in absolute mode.
C24_BlockMovesAbsolute ==
  \A p \in DOMAIN final_gcode :
    (final_gcode[p].src = "inj"
     /\ final_gcode[p].k \in {"zhop", "travel", "return"})
    => ~ReplayState(SubSeq(final_gcode, 1, p - 1)).rel

\* the fractions of the two pinned phases as the run uses them: the
\* settings' values, divided by their sum when that exceeds 1
UsedFractions ==
  LET v == settings.vertical_only_percentage
      h == settings.horizontal_only_percentage
  IN  IF v + h > 20 THEN <<Q(v, v + h), Q(h, v + h)>>
      ELSE <<Q(v, 20), Q(h, 20)>>

\* C25: a snapshot with t below the vertical-only fraction stands at the
\* start corner, one with t above 1 minus the horizontal-only fraction at
\* the end corner; X or Y differ from both corners only in between.
C25_PhasesPinCorners ==
  \A i \in DOMAIN blocks :
    LET w == blocks[i].wp
        t == blocks[i].t
        P0 == corner_coords(settings, settings.start_corner)
        P2 == corner_coords(settings, settings.end_corner)
        a == UsedFractions[1]
        b == QSub(QInt(1), UsedFractions[2])
        tr == final_gcode[PosOf("travel", i)]
        at(c) == w.x = QInt(c[1]) /\ w.y = QInt(c[2])
                 /\ tr.x = Fmt3(QInt(c[1])) /\ tr.y = Fmt3(QInt(c[2]))
    IN  settings.script = "arc" =>
          /\ QLt(t, a) => at(P0)
          /\ QLt(b, t) => at(P2)
          /\ (~at(P0) /\ ~at(P2)) => (QLe(a, t) /\ QLe(t, b))

\* snapshots in each of the three phases, between two different corners
C25_Witness ==
  /\ settings.script = "arc"
  /\ settings.start_corner # settings.end_corner
  /\ settings.min_x < settings.max_x /\ settings.min_y < settings.max_y
  /\ \E i, j, k \in DOMAIN blocks :
       /\ QLt(blocks[i].t, UsedFractions[1])
       /\ QLt(QSub(QInt(1), UsedFractions[2]), blocks[k].t)
       /\ blocks[j].wp.phase = 2
       /\ blocks[j].wp.x # blocks[i].wp.x /\ blocks[j].wp.x # blocks[k].wp.x

NoLayerSignYet ==
  \A i \in DOMAIN gcode_lines :
    /\ gcode_lines[i].kind \notin {"layer", "layer_change"}
    /\ \A k \in DOMAIN gcode_lines[i].toks : gcode_lines[i].toks[k].axis # "Z"

\* C27: as long as the input has shown no layer marker and no Z move, no
\* layer event has fired, the layer counter is 0 and no block is emitted.
C27_NoEventBeforeFirstLayer ==
  (pc = "loop" /\ NoLayerSignYet) =>
    /\ events = <<>>
    /\ blocks = <<>>
    /\ LayerCounter = 0
    /\ current_z = 0

\* C28: orbit, height mode other than Fixed Z: the Z of the k-th snapshot
\* is z1 + t_k * (max_z - z1), z1 being the Z of the first snapshot; the
\* last of N > 1 snapshots stands at max_z.
C28_OrbitHeightInterpolates ==
  (settings.script = "orbit" /\ settings.orbit_height # "Fixed Z"
   /\ settings.z_offset_for_snapshots = 0 /\ N > 1) =>
    \A i \in DOMAIN blocks :
      LET z1 == blocks[1].wp.z
          t == blocks[i].t
          tr == final_gcode[PosOf("travel", i)]
      IN  /\ blocks[i].wp.z
               = QAdd(z1, QMul(t, QSub(QInt(settings.max_z), z1)))
          /\ i = N => tr.z = Fmt3(QInt(settings.max_z))

\* the Z of the path before offset and follow factor: the base Z of the arc;
\* in orbit the fixed height or the height of the print
PathZ(i) ==
  IF settings.script = "arc" THEN blocks[i].wp.snapshot_base_z
  ELSE IF settings.orbit_height = "Fixed Z"
       THEN QInt(settings.fixed_z_height)
       ELSE QInt(blocks[i].cur[3])

\* C29: the Z of the travel move is the path Z plus z_offset plus the
\* current print Z times (follow factor - 1), and nothing else.
C29_TravelZIsPathZ ==
  \A i \in DOMAIN blocks :
    LET cz == blocks[i].cur[3]
        want == QAdd(QAdd(PathZ(i), QInt(settings.z_offset_for_snapshots)),
                     QMul(QInt(cz),
                          Q(settings.camera_distance_z_factor - 100, 100)))
        tr == final_gcode[PosOf("travel", i)]
    IN  /\ blocks[i].wp.z = want
        /\ tr.z = Fmt3(want)

\* the number of layer events accepted before the e-th
AcceptedBefore(e) == Cardinality({j \in 1..(e - 1) : events[j].accepted})

\* C30: with the layer total unknown the orbit pass runs on, and a layer
\* event of index L is accepted exactly when L >= F, L - F is a multiple of
\* 50 and fewer than N snapshots were taken.
C30_UnknownTotalStride ==
  (settings.script = "orbit" /\ settings.total_layers = NoneVal) =>
    /\ pc = "loop"
    /\ ~SetupRaises(OrbitModelInfo(settings, <<>>))
    /\ \A e \in DOMAIN events :
         events[e].accepted <=>
           /\ events[e].layer >= F
           /\ (events[e].layer - F) % 50 = 0
           /\ AcceptedBefore(e) < N
    /\ Len(blocks) = Cardinality({e \in DOMAIN events : events[e].accepted})

\* events at F and at F + 50 were accepted and one in between was not
C30_Witness ==
  /\ settings.script = "orbit" /\ settings.total_layers = NoneVal
  /\ \E a, b, c \in DOMAIN events :
       /\ a < b /\ b < c
       /\ events[a].layer = F /\ events[a].accepted
       /\ events[b].layer > F /\ events[b].layer < F + 50
       /\ ~events[b].accepted
       /\ events[c].layer = F + 50 /\ events[c].accepted

\* C31: the bed the extractor returns measures at least 50 mm in X and in
\* Y.
C31_BedAtLeastFloor ==
  pc # "parse" =>
    /\ info.bed_dimensions # <<>>
    /\ FloatGe(info.bed_dimensions[1], MIN_BED_DIMENSION)
    /\ FloatGe(info.bed_dimensions[2], MIN_BED_DIMENSION)

\* the Z values the file read so far offers: in explicit max_z comments, in
\* bracketed ranges
ExplicitMaxZ == {meta_lines[j].z : j \in Resolving({"max_z"})}
BracketedMaxZ ==
  {meta_lines[j].z : j \in {k \in Resolving({"range"}) :
                              meta_lines[k].z # NoneVal}}

\* C32: max_z is the value of the explicit max_z comment when the file has
\* one, and that of the bracketed Z range only when it has none; in the
\* extractor of main.py and in the local one of orbit.py.
C32_ExplicitMaxZFirst ==
  pc # "parse" =>
    /\ ExplicitMaxZ # {} =>
         /\ info.max_z \in ExplicitMaxZ
         /\ parse_gcode_info(meta_lines).max_z \in ExplicitMaxZ
    /\ (ExplicitMaxZ = {} /\ BracketedMaxZ # {}) =>
         /\ info.max_z \in BracketedMaxZ
         /\ parse_gcode_info(meta_lines).max_z \in BracketedMaxZ

\* the same line with its X, Y and Z words in this order and nothing else
AxisWords(line, a) ==
  SelectSeq(line.toks, LAMBDA tk : tk.axis = a)
Canonical(line) ==
  Line(line.kind,
       AxisWords(line, "X") \o AxisWords(line, "Y") \o AxisWords(line, "Z"),
       line.n)

\* C33: the position held after a G0/G1 line is the one held after the same
\* line in canonical X Y Z order, in arc.py, in the preview parser and in
\* the viewer's parser.
C33_FieldOrderIrrelevant ==
  [][ (pc = "loop" /\ settings.script = "arc"
       /\ Len(gcode_lines') = Len(gcode_lines) + 1
       /\ gcode_lines'[Len(gcode_lines')].kind = "move")
      => LET line == gcode_lines'[Len(gcode_lines')]
             pre == <<current_x, current_y, current_z>>
             st == [pos |-> pre, rel |-> is_relative]
         IN  /\ <<current_x', current_y', current_z'>>
                  = ArcTrack(Canonical(line), pre, is_relative)
             /\ toolpath_track(line, st) = toolpath_track(Canonical(line), st)
             /\ viewer_track(line, st) = viewer_track(Canonical(line), st)
    ]_vars


\* C34: a run on a readable file with arc or orbit ends in one finished
\* signal that carries the concatenation of the script's lines, and in no
\* error signal; whatever the run met, it emits one signal and leaves
\* sys.stdout as it found it
C34_RunEmitsFinishedOnce ==
  processor_thread.met # "" =>
    /\ Len(signals) = 1
    /\ sys_stdout = processor_thread.old_stdout
    /\ (processor_thread.mode \in {"arc", "orbit"}
          /\ processor_thread.met \in {"ok", "empty"})
       => LET t == processor_thread
              lines == IF t.met = "empty" THEN <<>>
                       ELSE OutputLines(t.filepath, t.mode, t.settings)
          IN  signals[1] = [name |-> "finished", filepath |-> t.filepath,
                            mode |-> t.mode,
                            content |-> IF lines = <<>> THEN <<>>
                                        ELSE lines[1].text \o lines[2].text]

\* the second half alone: one signal whatever the run met, and sys.stdout
\* left as found
C34_OneSignalStdoutRestored ==
  processor_thread.met # "" =>
    Len(signals) = 1 /\ sys_stdout = processor_thread.old_stdout

\* C37: whenever the button can be clicked and reads Open, the file it
\* opens holds the processed output of the file now loaded, made with the
\* script now selected and the settings now in force
C37_OpenButtonIsCurrent ==
  (busy = "" /\ go_button.enabled /\ go_button.text = "Open") =>
    /\ original_gcode_filepath # ""
    /\ output_filepath # <<>>
    /\ LET lines == OutputLines(original_gcode_filepath, script_combo,
                                current_settings)
       IN  disk[output_filepath] = lines[1].text \o lines[2].text

\* C38: whatever stands on disk under the name derived from a file was
\* generated by processing that file
C38_SaveWritesCurrentFile ==
  \A p \in DOMAIN disk :
    \A i \in DOMAIN disk[p] : disk[p][i].file = p[1]

\* C35: no division and no modulo of the schedulers and the path
\* generators has a zero divisor, whatever the count, the total, the floor
\* and the phase fractions
C35_NoZeroDivisor ==
  IF settings.script = "arc"
  THEN /\ 0 \notin ArcSetupDivisors(settings)
       /\ \A i \in DOMAIN blocks :
            0 \notin ArcSnapshotDivisors(settings, blocks[i].k)
  ELSE /\ 0 \notin OrbitSetupDivisors(settings)
       /\ \A i \in DOMAIN gcode_lines :
            gcode_lines[i].kind = "zc"
              => 0 \notin OrbitCommentDivisors(settings)
       /\ \A i \in DOMAIN events :
            0 \notin OrbitEventDivisors(settings, events[i].layer)
       /\ blocks # <<>> => 0 \notin OrbitSnapshotDivisors(settings)

\* the single snapshot of a run with N = 1 has been taken
C35_Witness ==
  /\ settings.script = "arc"
  /\ settings.num_snapshots = 1
  /\ Len(blocks) = 1

\* a snapshot taken inside an arc band of no width
C35_BandWitness ==
  /\ settings.script = "arc"
  /\ settings.vertical_only_percentage = 10
  /\ settings.horizontal_only_percentage = 10
  /\ \E i \in DOMAIN blocks : blocks[i].t = Q(1, 2)

\* C36: every block holds one sentinel line, after its travel move, and
\* has one record in snapshot_points_list, at the block's place in the
\* list, whose x, y, z are the numbers the travel move prints (to three
\* decimals); the sentinel lines of the output are as many as the records
C36_OneSentinelOneRecord ==
  /\ Len(snapshot_points_list) = Len(blocks)
  /\ Cardinality(KindIdx("header")) = Len(blocks)
  /\ Cardinality(KindIdx("TAKE")) = Len(snapshot_points_list)
  /\ \A i \in DOMAIN blocks :
       LET h == PosOf("header", i)
           takes == {p \in KindIdx("TAKE") : BlockOf(p) = h}
           tr == PosOf("travel", i)
           rec == snapshot_points_list[i]
       IN  /\ Cardinality(takes) = 1
           /\ BlockOf(tr) = h
           /\ \A p \in takes : tr < p
           /\ final_gcode[tr].x = Fmt3(rec[1])
           /\ final_gcode[tr].y = Fmt3(rec[2])
           /\ final_gcode[tr].z = Fmt3(rec[3])

\* two blocks without a dwell line have gone out
C36_Witness ==
  /\ Len(blocks) = 2
  /\ settings.dwell_time = 0
  /\ snapshot_points_list[1] # snapshot_points_list[2]

\* the closer reading of the same: the record is the printed number itself;
\* it fails under SpecOrbitLap, where a waypoint has more than three decimals
C36_Strict ==
  \A i \in DOMAIN blocks :
    LET tr == PosOf("travel", i)
        rec == snapshot_points_list[i]
    IN  QInt(final_gcode[tr].x) = rec[1] /\ QInt(final_gcode[tr].y) = rec[2]
        /\ QInt(final_gcode[tr].z) = rec[3]

====
